---- MODULE Spec2Model ----
(***************************************************************************)
(* A model of concordat-vale's idempotent text-artifact merge engine:      *)
(*   - stilyagi_install.py: _parse_ini / _render_ini / _update_vale_ini,   *)
(*     _ensure_variable / _ensure_phony / _replace_vale_target /           *)
(*     _update_makefile;                                                   *)
(*   - tengo_map.py: update_tengo_map and its helpers.                     *)
(* A Python str is a sequence of one-character strings.  A text file is a  *)
(* record [exists, lines, nl]: lines is what str.splitlines() returns and  *)
(* nl tells whether the text ends with a line terminator.  A Python dict   *)
(* is a sequence of [k, v] records in insertion order, keys unique.        *)
(***************************************************************************)
EXTENDS Integers, Sequences, FiniteSets, TLC

VARIABLES
    ini_file,   \* the .vale.ini on disk
    ini_prev,   \* the .vale.ini as it was before the last _update_vale_ini
    ini_args,   \* packages_url and manifest of the last _update_vale_ini
    ini_op,     \* "init" or "update": what produced ini_file
    mk_file,    \* the Makefile on disk
    mk_prev,    \* the Makefile as it was before the last _update_makefile
    mk_op,      \* "init" or "update"
    tg_file,    \* the Tengo script on disk
    tg_prev,    \* the Tengo script before the last update_tengo_map call
    tg_call,    \* map_name and entries of the last update_tengo_map call
    tg_ret,     \* what the last update_tengo_map call returned or raised
    tg_writes,  \* number of write_text calls made by the last call
    tg_runs,    \* number of update_tengo_map calls made so far
    src_file,   \* the source list file read by parse_source_entries
    src_mode,   \* the MapValueType passed to parse_source_entries
    src_ret,    \* what the last parse_source_entries call returned or raised
    cmd_ret,    \* how the last update-tengo-map command ended
    mg_existing, \* existing passed to _merge_and_order_section
    mg_required, \* required passed to _merge_and_order_section
    mg_result,  \* what _merge_and_order_section returned
    mg_done,    \* whether _merge_and_order_section has been applied
    rt_lines,   \* lines passed to _replace_vale_target
    rt_ret,     \* what _replace_vale_target returned, once applied
    me_lines,   \* lines passed to _find_map_end
    me_start,   \* start_idx passed to _find_map_end
    me_ret,     \* what _find_map_end returned or raised
    ref_repo,   \* repo passed to _parse_repo_reference
    ref_ret,    \* what _parse_repo_reference returned or raised
    pkg_tree,   \* the styles directory package_styles reads
    pkg_out,    \* the output directory: archive file name -> archive
    pkg_prev,   \* the output directory before the last package_styles call
    pkg_call,   \* arguments of the last package_styles call
    pkg_ret,    \* what the last package_styles call returned or raised
    pkg_runs,   \* number of package_styles calls made so far
    inst_config,   \* the InstallConfig given to _perform_install
    inst_pc,       \* the step _perform_install is at
    inst_start,    \* .vale.ini and Makefile as they were when it was called
    inst_lookup,   \* what _fetch_latest_release did
    inst_release,  \* what _resolve_release returned or raised
    inst_archive,  \* how fetching the packaged stilyagi.toml ended
    inst_manifest, \* what _load_install_manifest returned
    inst_log,      \* the steps _perform_install has taken, in order
    inst_ret       \* what _perform_install returned or raised

vars == <<ini_file, ini_prev, ini_args, ini_op, mk_file, mk_prev, mk_op,
          tg_file, tg_prev, tg_call, tg_ret, tg_writes, tg_runs,
          src_file, src_mode, src_ret, cmd_ret,
          mg_existing, mg_required, mg_result, mg_done,
          rt_lines, rt_ret, me_lines, me_start, me_ret, ref_repo, ref_ret,
          pkg_tree, pkg_out, pkg_prev, pkg_call, pkg_ret, pkg_runs,
          inst_config, inst_pc, inst_start, inst_lookup, inst_release,
          inst_archive, inst_manifest, inst_log, inst_ret>>

ini_vars == <<ini_file, ini_prev, ini_args, ini_op>>
mk_vars == <<mk_file, mk_prev, mk_op>>
tg_vars == <<tg_file, tg_prev, tg_call, tg_ret, tg_writes, tg_runs>>
src_vars == <<src_file, src_mode, src_ret, cmd_ret>>
mg_vars == <<mg_existing, mg_required, mg_result, mg_done>>
rt_vars == <<rt_lines, rt_ret>>
me_vars == <<me_lines, me_start, me_ret>>
ref_vars == <<ref_repo, ref_ret>>
fn_vars == <<rt_vars, me_vars, ref_vars>>
pkg_vars == <<pkg_tree, pkg_out, pkg_prev, pkg_call, pkg_ret, pkg_runs>>
inst_vars == <<inst_config, inst_pc, inst_start, inst_lookup, inst_release,
               inst_archive, inst_manifest, inst_log, inst_ret>>
app_vars == <<pkg_vars, inst_vars>>
ext_vars == <<fn_vars, app_vars>>

-----------------------------------------------------------------------------
(* Bounds of the model.                                                    *)

MaxIniLines == 3
MaxMkLines == 4
MaxTgBody == 2
MaxDictLen == 2
MaxTgRuns == 2
MaxSrcLines == 2
MaxEndLines == 4
MaxRefSegments == 3
MaxPkgRuns == 2

-----------------------------------------------------------------------------
(* Python str primitives.                                                  *)

Ascii == <<" ","!","\"","#","$","%","&","'","(",")","*","+",",","-",".","/",
           "0","1","2","3","4","5","6","7","8","9",":",";","<","=",">","?",
           "@","A","B","C","D","E","F","G","H","I","J","K","L","M","N","O",
           "P","Q","R","S","T","U","V","W","X","Y","Z","[","\\","]","^","_",
           "GRAVE","a","b","c","d","e","f","g","h","i","j","k","l","m","n","o",
           "p","q","r","s","t","u","v","w","x","y","z","{","|","}","~">>

\* ord(c) for the characters the model uses (code 96 is held by a placeholder)
Ord(c) == IF c = "\t" THEN 9 ELSE 31 + (CHOOSE i \in 1..Len(Ascii) : Ascii[i] = c)

\* str.isspace() for one character
IsSpace(c) == c \in {" ", "\t"}

\* a < b for two str (lexicographic by code point)
StrLess(a, b) ==
    \E i \in 1..(Len(a) + 1) :
        /\ i <= Len(b)
        /\ \A j \in 1..(i - 1) : a[j] = b[j]
        /\ (i = Len(a) + 1 \/ Ord(a[i]) < Ord(b[i]))

Min(S) == CHOOSE x \in S : \A y \in S : x <= y
Max(S) == CHOOSE x \in S : \A y \in S : x >= y

NonSpace(s) == {i \in 1..Len(s) : ~IsSpace(s[i])}

\* s.lstrip(), s.rstrip(), s.strip()
LStrip(s) == IF NonSpace(s) = {} THEN <<>> ELSE SubSeq(s, Min(NonSpace(s)), Len(s))
RStrip(s) == IF NonSpace(s) = {} THEN <<>> ELSE SubSeq(s, 1, Max(NonSpace(s)))
Strip(s) == LStrip(RStrip(s))

\* s.startswith(p), s.endswith(p)
StartsWith(s, p) == Len(s) >= Len(p) /\ SubSeq(s, 1, Len(p)) = p
EndsWith(s, p) == Len(s) >= Len(p) /\ SubSeq(s, Len(s) - Len(p) + 1, Len(s)) = p

\* index of the first c in s, 0 when absent
Find(s, c) == IF \E i \in 1..Len(s) : s[i] = c
              THEN Min({i \in 1..Len(s) : s[i] = c}) ELSE 0

\* s.count(c)
Count(s, c) == Cardinality({i \in 1..Len(s) : s[i] = c})

\* s.split(): the maximal runs of non-whitespace characters, in order
RECURSIVE Split(_)
Split(s) ==
    LET t == LStrip(s)
        sp == {i \in 1..Len(t) : IsSpace(t[i])}
        e == IF sp = {} THEN Len(t) ELSE Min(sp) - 1
    IN IF t = <<>> THEN <<>>
       ELSE <<SubSeq(t, 1, e)>> \o Split(SubSeq(t, e + 1, Len(t)))

Last(s) == s[Len(s)]

\* the elements of a sequence
Range(s) == {s[i] : i \in 1..Len(s)}

\* all sequences over S of length at most n
SeqsUpTo(S, n) == UNION {[1..k -> S] : k \in 0..n}

-----------------------------------------------------------------------------
(* Text files.                                                             *)

NoFile == [exists |-> FALSE, lines |-> <<>>, nl |-> FALSE]

\* the text whose splitlines() is lines and that ends with a terminator
Text(lines) == [exists |-> TRUE, lines |-> lines, nl |-> TRUE]

\* a text as read from disk: no final terminator only after a non-empty last line
WellFormedText(f) ==
    f.exists /\ (~f.nl => (f.lines # <<>> /\ Last(f.lines) # <<>>))

\* "\n".join(lines).rstrip() + "\n"
JoinRStripNl(lines) ==
    LET keep == {i \in 1..Len(lines) : NonSpace(lines[i]) # {}}
        n == Max(keep)
    IN IF keep = {} THEN Text(<< <<>> >>)
       ELSE Text(SubSeq(lines, 1, n - 1) \o <<RStrip(lines[n])>>)

\* "\n".join(lines) + "\n"
JoinNl(lines) ==
    IF lines = <<>> THEN Text(<< <<>> >>) ELSE Text(lines)

-----------------------------------------------------------------------------
(* Python dict: insertion-ordered, unique keys.                            *)

DictKeys(d) == [i \in 1..Len(d) |-> d[i].k]
DictHas(d, k) == \E i \in 1..Len(d) : d[i].k = k
DictGet(d, k) == d[CHOOSE i \in 1..Len(d) : d[i].k = k].v
\* d.get(k, default)
DictGetOr(d, k, default) == IF DictHas(d, k) THEN DictGet(d, k) ELSE default
\* d[k] = v
DictSet(d, k, v) ==
    IF DictHas(d, k)
    THEN [i \in 1..Len(d) |-> IF d[i].k = k THEN [k |-> k, v |-> v] ELSE d[i]]
    ELSE Append(d, [k |-> k, v |-> v])
\* d | e, d.update(e)
RECURSIVE DictUpdate(_, _)
DictUpdate(d, e) ==
    IF e = <<>> THEN d
    ELSE DictUpdate(DictSet(d, e[1].k, e[1].v), Tail(e))

KV(k, v) == [k |-> k, v |-> v]

-----------------------------------------------------------------------------
(* stilyagi_install.py: the .vale.ini document.                            *)

FOOTNOTE_REGEX == <<"(","?","m",")","^","\\","[","\\","^","\\","d","+","\\","]",":","[","^","\\","n","]","*","(","?",":","\\","n","["," ","\\","t","]","+","[","^","\\","n","]","*",")","*">>

K_Packages == <<"P","a","c","k","a","g","e","s">>
K_MinAlertLevel == <<"M","i","n","A","l","e","r","t","L","e","v","e","l">>
K_Vocab == <<"V","o","c","a","b">>
K_BasedOnStyles == <<"B","a","s","e","d","O","n","S","t","y","l","e","s">>
K_BlockIgnores == <<"B","l","o","c","k","I","g","n","o","r","e","s">>
S_Docs == <<"d","o","c","s","/","*","*","/","*",".","{","m","d",",","m","a","r","k","d","o","w","n",",","m","d","x","}">>
S_Agents == <<"A","G","E","N","T","S",".","m","d">>
S_Code == <<"*",".","{","r","s",",","t","s",",","j","s",",","s","h",",","p","y","}">>
S_Readme == <<"R","E","A","D","M","E",".","m","d">>

\* f"{key} = {value}"
KeyValueLine(key, value) == key \o <<" ", "=", " ">> \o value

\* root_priority in _render_ini
root_priority == <<K_Packages, K_MinAlertLevel, K_Vocab>>

\* section_order in _render_ini
section_order == <<S_Docs, S_Agents, S_Code, S_Readme>>

\* the lines of a dict's items, through f
RECURSIVE ItemLines(_, _)
ItemLines(d, skip) ==
    IF d = <<>> THEN <<>>
    ELSE (IF d[1].k \in skip THEN <<>> ELSE <<KeyValueLine(d[1].k, d[1].v)>>)
         \o ItemLines(Tail(d), skip)

RECURSIVE PriorityLines(_, _)
PriorityLines(root_options, prio) ==
    IF prio = <<>> THEN <<>>
    ELSE (IF DictHas(root_options, prio[1])
          THEN <<KeyValueLine(prio[1], DictGet(root_options, prio[1]))>>
          ELSE <<>>)
         \o PriorityLines(root_options, Tail(prio))

_render_root_options(root_options, prio) ==
    LET lines == PriorityLines(root_options, prio)
                 \o ItemLines(root_options, Range(prio))
    IN IF lines # <<>> THEN Append(lines, <<>>) ELSE lines

RECURSIVE OptionLines(_)
OptionLines(options) ==
    IF options = <<>> THEN <<>>
    ELSE (IF options[1].k = K_BlockIgnores
          THEN << <<"#"," ","I","g","n","o","r","e"," ","f","o","r"," ","f","o","o","t","n","o","t","e","s">> >>
          ELSE <<>>)
         \o <<KeyValueLine(options[1].k, options[1].v)>>
         \o OptionLines(Tail(options))

\* the lines _emit_section appends
_emit_section(name, options) ==
    << <<"[">> \o name \o <<"]">> >> \o OptionLines(options) \o << <<>> >>

\* the lines _emit_ordered_sections appends (seen is the names of order found in sections)
RECURSIVE _emit_ordered_sections(_, _)
_emit_ordered_sections(order, sections) ==
    IF order = <<>> THEN <<>>
    ELSE (IF DictHas(sections, order[1])
          THEN _emit_section(order[1], DictGet(sections, order[1]))
          ELSE <<>>)
         \o _emit_ordered_sections(Tail(order), sections)

\* sorted(names) for a set of str
RECURSIVE Sorted(_)
Sorted(S) ==
    IF S = {} THEN <<>>
    ELSE LET m == CHOOSE x \in S : \A y \in S \ {x} : StrLess(x, y)
         IN <<m>> \o Sorted(S \ {m})

RECURSIVE EmitAll(_, _)
EmitAll(names, sections) ==
    IF names = <<>> THEN <<>>
    ELSE _emit_section(names[1], DictGet(sections, names[1]))
         \o EmitAll(Tail(names), sections)

\* _emit_remaining_sections as it would be if it skipped sections without options
EmitRemainingNonEmpty(sections, seen) ==
    EmitAll(Sorted({n \in Range(DictKeys(sections)) \ seen : DictGet(sections, n) # <<>>}),
            sections)

\* _emit_remaining_sections as it would be without sorted()
EmitRemainingUnsorted(sections, seen) ==
    EmitAll(SelectSeq(DictKeys(sections), LAMBDA n : n \notin seen), sections)

\* the lines _emit_remaining_sections appends
_emit_remaining_sections(sections, seen) ==
    EmitAll(Sorted(Range(DictKeys(sections)) \ seen), sections)

_render_ini(root_options, sections) ==
    LET seen == {n \in Range(section_order) : DictHas(sections, n)}
    IN JoinRStripNl(_render_root_options(root_options, root_priority)
                    \o _emit_ordered_sections(section_order, sections)
                    \o _emit_remaining_sections(sections, seen))

\* ParseIniLine as it would be with key and value left unstripped
ParseIniLineUnstripped(st, line) ==
    LET stripped == Strip(line)
        eq == Find(line, "=")
    IN IF stripped = <<>> \/ stripped[1] \in {"#", ";"} THEN st
       ELSE IF stripped[1] = "[" /\ Last(stripped) = "]"
       THEN LET name == Strip(SubSeq(stripped, 2, Len(stripped) - 1))
            IN [st EXCEPT !.cur = <<name>>,
                          !.sections = IF DictHas(@, name) THEN @
                                       ELSE DictSet(@, name, <<>>)]
       ELSE IF eq # 0
       THEN LET key == SubSeq(line, 1, eq - 1)
                value == SubSeq(line, eq + 1, Len(line))
            IN IF st.cur = <<>>
               THEN [st EXCEPT !.root_options = DictSet(@, key, value)]
               ELSE [st EXCEPT !.sections =
                        DictSet(@, st.cur[1], DictSet(DictGet(@, st.cur[1]), key, value))]
       ELSE st

\* one iteration of the loop of _parse_ini; st.cur is <<>> for the root
\* options, <<name>> for the section that is open
ParseIniLine(st, line) ==
    LET stripped == Strip(line)
        eq == Find(line, "=")
    IN IF stripped = <<>> \/ stripped[1] \in {"#", ";"} THEN st
       ELSE IF stripped[1] = "[" /\ Last(stripped) = "]"
       THEN LET name == Strip(SubSeq(stripped, 2, Len(stripped) - 1))
            IN [st EXCEPT !.cur = <<name>>,
                          !.sections = IF DictHas(@, name) THEN @
                                       ELSE DictSet(@, name, <<>>)]
       ELSE IF eq # 0
       THEN LET key == Strip(SubSeq(line, 1, eq - 1))
                value == Strip(SubSeq(line, eq + 1, Len(line)))
            IN IF st.cur = <<>>
               THEN [st EXCEPT !.root_options = DictSet(@, key, value)]
               ELSE [st EXCEPT !.sections =
                        DictSet(@, st.cur[1], DictSet(DictGet(@, st.cur[1]), key, value))]
       ELSE st

RECURSIVE ParseIniLines(_, _)
ParseIniLines(st, lines) ==
    IF lines = <<>> THEN st
    ELSE ParseIniLines(ParseIniLine(st, lines[1]), Tail(lines))

\* _parse_ini: [root_options, sections] of the file, empty when it is absent
_parse_ini(file) ==
    LET st == ParseIniLines([root_options |-> <<>>, sections |-> <<>>, cur |-> <<>>],
                            IF file.exists THEN file.lines ELSE <<>>)
    IN [root_options |-> st.root_options, sections |-> st.sections]

RECURSIVE RequiredFirst(_, _)
RequiredFirst(required, merged) ==
    IF required = <<>> THEN <<>>
    ELSE (IF DictHas(merged, required[1].k)
          THEN <<KV(required[1].k, DictGet(merged, required[1].k))>>
          ELSE <<>>)
         \o RequiredFirst(Tail(required), merged)

\* _merge_and_order_section as it would be if existing values won conflicts
MergeExistingWins(existing, required) ==
    LET merged == DictUpdate(required, existing)
        ordered == RequiredFirst(required, merged)
    IN DictUpdate(ordered, SelectSeq(merged, LAMBDA e : ~DictHas(ordered, e.k)))

\* _merge_and_order_section as it would be if the remaining keys were sorted
MergeRemainingSorted(existing, required) ==
    LET merged == DictUpdate(existing, required)
        ordered == RequiredFirst(required, merged)
        rest == {merged[i].k : i \in {j \in 1..Len(merged) : ~DictHas(ordered, merged[j].k)}}
        names == Sorted(rest)
    IN ordered \o [i \in 1..Len(names) |-> KV(names[i], DictGet(merged, names[i]))]

_merge_and_order_section(existing, required) ==
    LET merged == DictUpdate(existing, required)
        ordered == RequiredFirst(required, merged)
    IN DictUpdate(ordered, SelectSeq(merged, LAMBDA e : ~DictHas(ordered, e.k)))

\* required_sections of _update_vale_ini
required_sections(style_name) ==
    << KV(S_Docs, <<KV(K_BasedOnStyles, style_name), KV(K_BlockIgnores, FOOTNOTE_REGEX)>>),
       KV(S_Agents, <<KV(K_BasedOnStyles, style_name)>>),
       KV(S_Code, <<KV(K_BasedOnStyles, style_name),
                    KV(style_name \o <<".","R","u","s","t","N","o","R","u","n">>, <<"N","O">>),
                    KV(style_name \o <<".","A","c","r","o","n","y","m","s">>, <<"N","O">>)>>),
       KV(S_Readme, <<KV(K_BasedOnStyles, style_name),
                      KV(style_name \o <<".","P","r","o","n","o","u","n","s">>, <<"N","O">>)>>) >>

RECURSIVE MergeRequired(_, _)
MergeRequired(sections, required) ==
    IF required = <<>> THEN sections
    ELSE MergeRequired(
            DictSet(sections, required[1].k,
                    _merge_and_order_section(DictGetOr(sections, required[1].k, <<>>),
                                              required[1].v)),
            Tail(required))

\* the document _update_vale_ini renders: root options overlaid, sections merged
UpdatedIniDoc(file, a) ==
    LET doc == _parse_ini(file)
    IN [root_options |->
            DictUpdate(doc.root_options,
                       <<KV(K_Packages, a.packages_url),
                         KV(K_MinAlertLevel, a.min_alert_level),
                         KV(K_Vocab, IF a.vocab_name # <<>> THEN a.vocab_name
                                     ELSE a.style_name)>>),
        sections |-> MergeRequired(doc.sections, required_sections(a.style_name))]

\* the text _update_vale_ini writes to ini_path
_update_vale_ini(file, a) ==
    LET doc == UpdatedIniDoc(file, a)
    IN _render_ini(doc.root_options, doc.sections)

-----------------------------------------------------------------------------
(* Inputs of the .vale.ini model.                                          *)

L_StylesPath == <<"S","t","y","l","e","s","P","a","t","h"," ","="," ","s","t","y","l","e","s">>
L_Legacy == <<"[","l","e","g","a","c","y","]">>
L_Alpha == <<"[","a","l","p","h","a","]">>
L_BasedOn == <<"B","a","s","e","d","O","n","S","t","y","l","e","s"," ","="," ","V","a","l","e">>
L_Readme == <<"[","R","E","A","D","M","E",".","m","d","]">>
L_Comment == <<"#"," ","n","o","t","e">>
L_Vocab == <<" ","V","o","c","a","b","=","o","l","d"," ">>

IniInputLines == {L_StylesPath, L_Legacy, L_Alpha, L_BasedOn, L_Readme, L_Comment, L_Vocab}

\* the files _update_vale_ini may find: none, or any text of up to MaxIniLines lines
IniInputs ==
    {NoFile} \cup {[exists |-> TRUE, lines |-> l, nl |-> l # <<>>] :
                      l \in SeqsUpTo(IniInputLines, MaxIniLines)}

\* packages_url and the InstallManifest fields
Overlays ==
    { [packages_url |-> <<"U">>, style_name |-> <<"s">>, vocab_name |-> <<"s">>,
       min_alert_level |-> <<"w","a","r","n","i","n","g">>],
      [packages_url |-> <<"V">>, style_name |-> <<"t">>, vocab_name |-> <<"v">>,
       min_alert_level |-> <<"e","r","r","o","r">>] }

NoOverlay == [packages_url |-> <<>>, style_name |-> <<>>, vocab_name |-> <<>>,
              min_alert_level |-> <<>>]

IniIdle ==
    /\ ini_file = NoFile
    /\ ini_prev = NoFile
    /\ ini_args = NoOverlay
    /\ ini_op = "init"

\* _update_vale_ini(ini_path, packages_url, manifest): parse, overlay, render, write
UpdateValeIni(a) ==
    /\ ini_prev' = ini_file
    /\ ini_file' = _update_vale_ini(ini_file, a)
    /\ ini_args' = a
    /\ ini_op' = "update"
    /\ UNCHANGED <<mk_vars, tg_vars, src_vars, mg_vars, ext_vars>>

-----------------------------------------------------------------------------
(* stilyagi_install.py: the Makefile.  List indices are Python's, from 0.  *)

\* re.compile(rf"^{re.escape(key)}\s*[?:]?=").match(line)
MatchesAssignment(line, key) ==
    /\ StartsWith(line, key)
    /\ LET rest == LStrip(SubSeq(line, Len(key) + 1, Len(line)))
       IN /\ rest # <<>>
          /\ \/ rest[1] = "="
             \/ rest[1] \in {"?", ":"} /\ Len(rest) >= 2 /\ rest[2] = "="

_ensure_variable(lines, key, assignment) ==
    IF \E i \in 1..Len(lines) : MatchesAssignment(lines[i], key)
    THEN lines
    ELSE <<assignment>> \o (IF lines # <<>> THEN << <<>> >> ELSE <<>>) \o lines

T_PHONY == <<".","P","H","O","N","Y">>

\* _ensure_phony as it would be without the test for a target already listed
EnsurePhonyAlwaysAppends(lines, target) ==
    LET phony == {i \in 1..Len(lines) : StartsWith(LStrip(lines[i]), T_PHONY)}
        idx == Min(phony)
    IN IF phony = {}
       THEN << T_PHONY \o <<":", " ">> \o target >>
            \o (IF lines # <<>> THEN << <<>> >> ELSE <<>>) \o lines
       ELSE SubSeq(lines, 1, idx - 1)
            \o << RStrip(lines[idx]) \o <<" ">> \o target >>
            \o SubSeq(lines, idx + 1, Len(lines))

_ensure_phony(lines, target) ==
    LET phony == {i \in 1..Len(lines) : StartsWith(LStrip(lines[i]), T_PHONY)}
        idx == Min(phony)
    IN IF phony = {}
       THEN << T_PHONY \o <<":", " ">> \o target >>
            \o (IF lines # <<>> THEN << <<>> >> ELSE <<>>) \o lines
       ELSE IF target \in Range(Split(lines[idx]))
       THEN lines
       ELSE SubSeq(lines, 1, idx - 1)
            \o << RStrip(lines[idx]) \o <<" ">> \o target >>
            \o SubSeq(lines, idx + 1, Len(lines))

\* while end_idx < len(lines) and lines[end_idx].startswith("\t"): end_idx += 1
RECURSIVE SkipTabbed(_, _)
SkipTabbed(lines, end_idx) ==
    IF end_idx < Len(lines) /\ StartsWith(lines[end_idx + 1], <<"\t">>)
    THEN SkipTabbed(lines, end_idx + 1) ELSE end_idx

\* while end_idx < len(lines) and lines[end_idx].strip() == "": end_idx += 1
RECURSIVE SkipBlank(_, _)
SkipBlank(lines, end_idx) ==
    IF end_idx < Len(lines) /\ Strip(lines[end_idx + 1]) = <<>>
    THEN SkipBlank(lines, end_idx + 1) ELSE end_idx

\* _find_target_bounds as it would be without the loop over blank lines
FindTargetBoundsNoBlanks(lines, target_header) ==
    LET found == {i \in 1..Len(lines) : StartsWith(lines[i], target_header)}
        start_idx == Min(found) - 1
    IN IF found = {}
       THEN [start_idx |-> -1, end_idx |-> Len(lines)]
       ELSE [start_idx |-> start_idx, end_idx |-> SkipTabbed(lines, start_idx + 1)]

\* [start_idx, end_idx]; start_idx is -1 for None
_find_target_bounds(lines, target_header) ==
    LET found == {i \in 1..Len(lines) : StartsWith(lines[i], target_header)}
        start_idx == Min(found) - 1
    IN IF found = {}
       THEN [start_idx |-> -1, end_idx |-> Len(lines)]
       ELSE [start_idx |-> start_idx,
             end_idx |-> SkipBlank(lines, SkipTabbed(lines, start_idx + 1))]

_append_with_spacing(lines, recipe) ==
    IF lines # <<>> /\ Strip(Last(lines)) # <<>>
    THEN lines \o << <<>> >> \o recipe
    ELSE lines \o recipe

\* recipe in _replace_vale_target
recipe ==
    << <<"v","a","l","e",":"," ","$","(","V","A","L","E",")"," ","$","(","A","C","R","O","N","Y","M","_","S","C","R","I","P","T",")"," ","#","#"," ","C","h","e","c","k"," ","p","r","o","s","e">>,
       <<"\t","$","(","V","A","L","E",")"," ","s","y","n","c">>,
       <<"\t","$","(","V","A","L","E",")"," ","-","-","n","o","-","g","l","o","b","a","l"," ",".">> >>

T_ValeHeader == <<"v","a","l","e",":">>

_replace_vale_target(lines) ==
    LET b == _find_target_bounds(lines, T_ValeHeader)
    IN IF b.start_idx = -1
       THEN _append_with_spacing(lines, recipe)
       ELSE SubSeq(lines, 1, b.start_idx) \o recipe
            \o SubSeq(lines, b.end_idx + 1, Len(lines))

T_VALE == <<"V","A","L","E">>
T_vale == <<"v","a","l","e">>
T_ValeAssignment == <<"V","A","L","E"," ","?","="," ","v","a","l","e">>

\* the lines _update_makefile reads
MkReadLines(file) == IF file.exists THEN file.lines ELSE <<>>
\* lines after each of the three transforms of _update_makefile
MkAfterVariable(file) == _ensure_variable(MkReadLines(file), T_VALE, T_ValeAssignment)
MkAfterPhony(file) == _ensure_phony(MkAfterVariable(file), T_vale)
MkAfterTarget(file) == _replace_vale_target(MkAfterPhony(file))

\* the text _update_makefile writes to makefile_path
_update_makefile(file) == JoinRStripNl(MkAfterTarget(file))

M_ValeOld == <<"v","a","l","e",":"," ","o","l","d">>
M_Echo == <<"\t","@","e","c","h","o"," ","x">>
M_Blank == <<>>
M_Lint == <<"l","i","n","t",":">>
M_PhonyTest == <<".","P","H","O","N","Y",":"," ","t","e","s","t">>
M_PhonyVale == <<".","P","H","O","N","Y",":"," ","v","a","l","e"," ","t","e","s","t">>
M_ValeVar == <<"V","A","L","E"," ",":","="," ","v">>

MkInputLines == {M_ValeOld, M_Echo, M_Blank, M_Lint, M_PhonyTest, M_PhonyVale, M_ValeVar}

\* the files _update_makefile may find: none, or any text of up to MaxMkLines lines
MkInputs ==
    {NoFile} \cup {[exists |-> TRUE, lines |-> l, nl |-> l # <<>>] :
                      l \in SeqsUpTo(MkInputLines, MaxMkLines)}

MkIdle ==
    /\ mk_file = NoFile
    /\ mk_prev = NoFile
    /\ mk_op = "init"

\* _update_makefile(makefile_path): read, three transforms, write
UpdateMakefile ==
    /\ mk_prev' = mk_file
    /\ mk_file' = _update_makefile(mk_file)
    /\ mk_op' = "update"
    /\ UNCHANGED <<ini_vars, tg_vars, src_vars, mg_vars, ext_vars>>

-----------------------------------------------------------------------------
(* tengo_map.py: values.  A Python value is [t, n, s]: t is its type, n    *)
(* the number it holds (a bool as 0 or 1, a float in tenths) and s the     *)
(* characters of a str.                                                    *)

PyBool(b) == [t |-> "bool", n |-> IF b THEN 1 ELSE 0, s |-> <<>>]
PyInt(n) == [t |-> "int", n |-> n, s |-> <<>>]
PyFloat(tenths) == [t |-> "float", n |-> tenths, s |-> <<>>]
PyStr(s) == [t |-> "str", n |-> 0, s |-> s]
\* float("nan"): a float that compares unequal to every float, itself included
PyNaN == [t |-> "nan", n |-> 0, s |-> <<>>]

Digits == {"0","1","2","3","4","5","6","7","8","9"}
DigitVal(c) == Ord(c) - 48

\* the number a run of decimal digits denotes
RECURSIVE DigitsVal(_)
DigitsVal(s) ==
    IF s = <<>> THEN 0
    ELSE 10 * DigitsVal(SubSeq(s, 1, Len(s) - 1)) + DigitVal(Last(s))

\* the decimal digits of n >= 0
RECURSIVE NatStr(_)
NatStr(n) ==
    IF n < 10 THEN <<Ascii[17 + n]>>
    ELSE NatStr(n \div 10) \o <<Ascii[17 + (n % 10)]>>

\* s.lower() on the letters of "true", "false" and "nan"
LowerChar(c) ==
    CASE c = "T" -> "t" [] c = "R" -> "r" [] c = "U" -> "u" [] c = "E" -> "e"
      [] c = "F" -> "f" [] c = "A" -> "a" [] c = "L" -> "l" [] c = "S" -> "s"
      [] c = "N" -> "n"
      [] OTHER -> c
Lower(s) == [i \in 1..Len(s) |-> LowerChar(s[i])]

W_true == <<"t","r","u","e">>
W_false == <<"f","a","l","s","e">>
W_nan == <<"n","a","n">>

Unsigned(s) == IF s # <<>> /\ s[1] \in {"+", "-"} THEN Tail(s) ELSE s
Sign(s) == IF s # <<>> /\ s[1] = "-" THEN -1 ELSE 1

\* int(s) succeeds: an optional sign and decimal digits
IsIntLiteral(s) == Unsigned(s) # <<>> /\ Range(Unsigned(s)) \subseteq Digits
IntOf(s) == Sign(s) * DigitsVal(Unsigned(s))

\* float(s) is a NaN: an optional sign and "nan" in any case
IsNanLiteral(s) == Lower(Unsigned(s)) = W_nan

\* float(s) succeeds, for the literals of the model: an optional sign and
\* "nan", or digits, a point and at most one digit (at least one digit in all)
IsFloatLiteral(s) ==
    LET u == Unsigned(s)
        dot == Find(u, ".")
    IN \/ IsIntLiteral(s)
       \/ IsNanLiteral(s)
       \/ /\ dot # 0
          /\ Len(u) - dot <= 1
          /\ Len(u) >= 2
          /\ \A i \in 1..Len(u) : i # dot => u[i] \in Digits
\* float(s) in tenths
FloatOf(s) ==
    LET u == Unsigned(s)
        dot == Find(u, ".")
    IN IF dot = 0 THEN 10 * IntOf(s)
       ELSE Sign(s) * (10 * DigitsVal(SubSeq(u, 1, dot - 1))
                       + DigitsVal(SubSeq(u, dot + 1, Len(u))))

\* float(s) as a Python value
ParseFloat(s) == IF IsNanLiteral(s) THEN PyNaN ELSE PyFloat(FloatOf(s))

\* json.loads of the inside of a quoted string: [ok, s]
RECURSIVE JsonUnescape(_)
JsonUnescape(s) ==
    IF s = <<>> THEN [ok |-> TRUE, s |-> <<>>]
    ELSE IF s[1] \in {"\"", "\t", "\n", "\r"} THEN [ok |-> FALSE, s |-> <<>>]
    ELSE IF s[1] = "\\"
    THEN IF Len(s) < 2 \/ s[2] \notin {"\"", "\\", "/", "t", "n", "r"}
         THEN [ok |-> FALSE, s |-> <<>>]
         ELSE LET r == JsonUnescape(SubSeq(s, 3, Len(s)))
                  c == CASE s[2] = "t" -> "\t" [] s[2] = "n" -> "\n"
                         [] s[2] = "r" -> "\r" [] OTHER -> s[2]
              IN [ok |-> r.ok, s |-> <<c>> \o r.s]
    ELSE LET r == JsonUnescape(Tail(s))
         IN [ok |-> r.ok, s |-> <<s[1]>> \o r.s]

\* s.strip('"')
StripQuotes(s) ==
    LET keep == {i \in 1..Len(s) : s[i] # "\""}
    IN IF keep = {} THEN <<>> ELSE SubSeq(s, Min(keep), Max(keep))

\* json.dumps(s)
RECURSIVE JsonEscape(_)
JsonEscape(s) ==
    IF s = <<>> THEN <<>>
    ELSE (CASE s[1] = "\"" -> <<"\\", "\"">>
            [] s[1] = "\\" -> <<"\\", "\\">>
            [] s[1] = "\t" -> <<"\\", "t">>
            [] s[1] = "\n" -> <<"\\", "n">>
            [] s[1] = "\r" -> <<"\\", "r">>
            [] OTHER -> <<s[1]>>) \o JsonEscape(Tail(s))
JsonDumps(s) == <<"\"">> \o JsonEscape(s) \o <<"\"">>

_parse_existing_value(raw) ==
    LET stripped == Strip(raw)
        lowered == Lower(stripped)
    IN IF lowered = W_true THEN PyBool(TRUE)
       ELSE IF lowered = W_false THEN PyBool(FALSE)
       ELSE IF Len(stripped) >= 2 /\ stripped[1] = "\"" /\ Last(stripped) = "\""
       THEN LET r == JsonUnescape(SubSeq(stripped, 2, Len(stripped) - 1))
            IN IF r.ok THEN PyStr(r.s) ELSE PyStr(StripQuotes(stripped))
       ELSE IF IsIntLiteral(stripped) THEN PyInt(IntOf(stripped))
       ELSE IF IsFloatLiteral(stripped) THEN ParseFloat(stripped)
       ELSE PyStr(stripped)

\* isinstance(v, (int, float)): a bool is an int
IsNumber(v) == v.t \in {"bool", "int", "float", "nan"}
\* float(v) in tenths
AsFloat(v) == IF v.t = "float" THEN v.n ELSE 10 * v.n

\* _values_equal as it would be comparing the Python objects' types as well
ValuesEqualSameType(existing, new_value) ==
    existing = new_value

_values_equal(existing, new_value) ==
    IF IsNumber(existing) /\ IsNumber(new_value)
    THEN /\ existing.t # "nan" /\ new_value.t # "nan"
         /\ AsFloat(existing) = AsFloat(new_value)
    ELSE existing.t = "str" /\ new_value.t = "str" /\ existing.s = new_value.s

\* str(value) for an int or a float
NumStr(v) ==
    LET a == IF v.n < 0 THEN -v.n ELSE v.n
        sign == IF v.n < 0 THEN <<"-">> ELSE <<>>
    IN IF v.t = "nan" THEN W_nan
       ELSE IF v.t = "float"
       THEN sign \o NatStr(a \div 10) \o <<".">> \o NatStr(a % 10)
       ELSE sign \o NatStr(a)

_render_value(value) ==
    IF value.t = "bool" THEN (IF value.n = 1 THEN W_true ELSE W_false)
    ELSE IF value.t \in {"int", "float", "nan"} THEN NumStr(value)
    ELSE JsonDumps(value.s)

_render_entry(key, value, indent, comment) ==
    indent \o <<"\"">> \o key \o <<"\"", ":", " ">> \o _render_value(value)
           \o <<",">> \o comment

-----------------------------------------------------------------------------
(* tengo_map.py: the map literal.  List indices are Python's, from 0.      *)

\* the first index >= i of a non-whitespace character, Len(line) + 1 when none
SkipSpace(line, i) ==
    LET ns == {j \in i..Len(line) : ~IsSpace(line[j])}
    IN IF ns = {} THEN Len(line) + 1 ELSE Min(ns)

\* (?:[^"\\]|\\.)+" scanned from i: the index of the closing quote, 0 when none
RECURSIVE KeyEnd(_, _)
KeyEnd(line, i) ==
    IF i > Len(line) THEN 0
    ELSE IF line[i] = "\"" THEN i
    ELSE IF line[i] = "\\"
    THEN (IF i + 1 > Len(line) THEN 0 ELSE KeyEnd(line, i + 2))
    ELSE KeyEnd(line, i + 1)

NoMatch == [ok |-> FALSE, indent |-> <<>>, key |-> <<>>, value |-> <<>>,
            comment |-> <<>>]

\* ENTRY_PATTERN.match(line): the groups, comment "" when it did not take part
ENTRY_PATTERN(line) ==
    LET q0 == SkipSpace(line, 1)
        q1 == IF q0 <= Len(line) /\ line[q0] = "\"" THEN KeyEnd(line, q0 + 1) ELSE 0
        c == IF q1 > q0 + 1 THEN SkipSpace(line, q1 + 1) ELSE 0
        v == IF c # 0 /\ c <= Len(line) /\ line[c] = ":"
             THEN SkipSpace(line, c + 1) ELSE 0
        IsComment(rest) == StartsWith(LStrip(rest), <<"/", "/">>)
        TailOk(p) == LET rest == SubSeq(line, p + 1, Len(line))
                     IN Strip(rest) = <<>> \/ IsComment(rest)
        commas == IF v = 0 THEN {}
                  ELSE {p \in v..Len(line) : line[p] = "," /\ TailOk(p)}
        p == Max(commas)
        rest == SubSeq(line, p + 1, Len(line))
    IN IF commas = {} THEN NoMatch
       ELSE [ok |-> TRUE,
             indent |-> SubSeq(line, 1, q0 - 1),
             key |-> SubSeq(line, q0 + 1, q1 - 1),
             value |-> SubSeq(line, v, p - 1),
             comment |-> IF IsComment(rest) THEN rest ELSE <<>>]

\* re.compile(rf"^(?P<indent>\s*){re.escape(map_name)}\s*:=\s*\{{\s*$").match(line)
HeaderMatch(line, map_name) ==
    LET body == LStrip(line)
        r1 == LStrip(SubSeq(body, Len(map_name) + 1, Len(body)))
        r2 == LStrip(SubSeq(r1, 3, Len(r1)))
    IN /\ StartsWith(body, map_name)
       /\ StartsWith(r1, <<":", "=">>)
       /\ r2 # <<>> /\ r2[1] = "{" /\ Strip(Tail(r2)) = <<>>

\* [idx, indent], idx -1 when TengoMapError is raised
_find_map_header(lines, map_name) ==
    LET hit == {i \in 1..Len(lines) : HeaderMatch(lines[i], map_name)}
        i == Min(hit)
    IN IF hit = {} THEN [idx |-> -1, indent |-> <<>>]
       ELSE [idx |-> i - 1,
             indent |-> SubSeq(lines[i], 1, SkipSpace(lines[i], 1) - 1)]

\* the loop of _find_map_end from idx with the depth so far
RECURSIVE MapEndFrom(_, _, _)
MapEndFrom(lines, idx, depth) ==
    IF idx >= Len(lines) THEN -1
    ELSE LET d == depth + Count(lines[idx + 1], "{") - Count(lines[idx + 1], "}")
         IN IF d = 0 THEN idx ELSE MapEndFrom(lines, idx + 1, d)

\* _find_map_end stopping where the depth is 0 or less
RECURSIVE MapEndFromNonPositive(_, _, _)
MapEndFromNonPositive(lines, idx, depth) ==
    IF idx >= Len(lines) THEN -1
    ELSE LET d == depth + Count(lines[idx + 1], "{") - Count(lines[idx + 1], "}")
         IN IF d <= 0 THEN idx ELSE MapEndFromNonPositive(lines, idx + 1, d)
FindMapEndNonPositive(lines, start_idx) ==
    MapEndFromNonPositive(lines, start_idx + 1, 1)

\* the index of the closing line, -1 when TengoMapError is raised
_find_map_end(lines, start_idx) == MapEndFrom(lines, start_idx + 1, 1)

\* _Entry
Entry(index, indent, comment, raw_value) ==
    [index |-> index, indent |-> indent, comment |-> comment,
     raw_value |-> raw_value, value |-> _parse_existing_value(raw_value)]

\* the loop of _collect_entries for idx in range(idx, end)
RECURSIVE CollectFrom(_, _, _, _)
CollectFrom(lines, idx, end, acc) ==
    IF idx >= end THEN acc
    ELSE LET m == ENTRY_PATTERN(lines[idx + 1])
         IN CollectFrom(lines, idx + 1, end,
                IF ~m.ok THEN acc
                ELSE [entries |-> DictSet(acc.entries, m.key,
                                          Entry(idx, m.indent, m.comment, Strip(m.value))),
                      entry_indent |-> IF acc.entry_indent = <<>>
                                       THEN <<m.indent>> ELSE acc.entry_indent])

\* _collect_entries as it would be falling back on the header's indentation
CollectEntriesHeaderIndent(lines, start, end, map_indent) ==
    LET r == CollectFrom(lines, start, end, [entries |-> <<>>, entry_indent |-> <<>>])
    IN [entries |-> r.entries,
        entry_indent |-> IF r.entry_indent = <<>> THEN map_indent
                         ELSE r.entry_indent[1]]

\* [entries, entry_indent]
_collect_entries(lines, start, end, map_indent) ==
    LET r == CollectFrom(lines, start, end, [entries |-> <<>>, entry_indent |-> <<>>])
    IN [entries |-> r.entries,
        entry_indent |-> IF r.entry_indent = <<>> THEN map_indent \o <<" ", " ">>
                         ELSE r.entry_indent[1]]

\* lines.insert(idx + 1, line): ListInsert as it would be one line too far
ListInsertAfter(lines, idx, line) ==
    SubSeq(lines, 1, idx + 1) \o <<line>> \o SubSeq(lines, idx + 2, Len(lines))

\* lines.insert(idx, line)
ListInsert(lines, idx, line) ==
    SubSeq(lines, 1, idx) \o <<line>> \o SubSeq(lines, idx + 1, Len(lines))

\* ApplyEntry as it would be without current_closing_idx += 1
ApplyEntryClosingKept(st, existing, entry_indent, key, value) ==
    IF DictHas(existing, key)
    THEN LET entry == DictGet(existing, key)
         IN IF _values_equal(entry.value, value) THEN st
            ELSE [st EXCEPT !.lines[entry.index + 1] =
                                _render_entry(key, value, entry.indent, entry.comment),
                            !.updated = @ + 1]
    ELSE [lines |-> ListInsert(st.lines, st.closing,
                               _render_entry(key, value, entry_indent, <<>>)),
          closing |-> st.closing,
          updated |-> st.updated + 1]

\* ApplyEntry as it would be inserting before the first existing entry
ApplyEntryInsertsFirst(st, existing, entry_indent, key, value) ==
    IF DictHas(existing, key)
    THEN LET entry == DictGet(existing, key)
         IN IF _values_equal(entry.value, value) THEN st
            ELSE [st EXCEPT !.lines[entry.index + 1] =
                                _render_entry(key, value, entry.indent, entry.comment),
                            !.updated = @ + 1]
    ELSE [lines |-> ListInsert(st.lines,
                               IF existing = <<>> THEN st.closing
                               ELSE Min({existing[i].v.index : i \in 1..Len(existing)}),
                               _render_entry(key, value, entry_indent, <<>>)),
          closing |-> st.closing + 1,
          updated |-> st.updated + 1]

\* one iteration of the loop of _apply_entries
ApplyEntry(st, existing, entry_indent, key, value) ==
    IF DictHas(existing, key)
    THEN LET entry == DictGet(existing, key)
         IN IF _values_equal(entry.value, value) THEN st
            ELSE [st EXCEPT !.lines[entry.index + 1] =
                                _render_entry(key, value, entry.indent, entry.comment),
                            !.updated = @ + 1]
    ELSE [lines |-> ListInsert(st.lines, st.closing,
                               _render_entry(key, value, entry_indent, <<>>)),
          closing |-> st.closing + 1,
          updated |-> st.updated + 1]

RECURSIVE ApplyFrom(_, _, _, _)
ApplyFrom(st, existing, entry_indent, entries) ==
    IF entries = <<>> THEN st
    ELSE ApplyFrom(ApplyEntry(st, existing, entry_indent, entries[1].k, entries[1].v),
                   existing, entry_indent, Tail(entries))

\* [updated, lines, closing]: the result and the final current_closing_idx
_apply_entries(lines, existing, entry_indent, entries, closing_idx) ==
    ApplyFrom([lines |-> lines, closing |-> closing_idx, updated |-> 0],
              existing, entry_indent, entries)

Raised(exc, file) ==
    [ret |-> [status |-> exc, updated |-> 0, wrote_file |-> FALSE],
     file |-> file, writes |-> 0]

\* update_tengo_map from new_text on: the comparison with the text read, the
\* write and the result
WriteIfChanged(file, updated, new_text) ==
    [ret |-> [status |-> "ok", updated |-> updated, wrote_file |-> new_text # file],
     file |-> IF new_text # file THEN new_text ELSE file,
     writes |-> IF new_text # file THEN 1 ELSE 0]

\* update_tengo_map once _apply_entries has returned applied
WriteApplied(file, applied) ==
    WriteIfChanged(file, applied.updated, JoinNl(applied.lines))

\* update_tengo_map once _collect_entries has returned collected
ApplyCollected(file, entries, end_idx, collected) ==
    WriteApplied(file, _apply_entries(file.lines, collected.entries,
                                      collected.entry_indent, entries, end_idx))

\* update_tengo_map once _find_map_end has returned end_idx, or raised
CollectAndApply(file, entries, header, end_idx) ==
    IF end_idx = -1 THEN Raised("TengoMapError", file)
    ELSE ApplyCollected(file, entries, end_idx,
                        _collect_entries(file.lines, header.idx + 1, end_idx,
                                         header.indent))

\* update_tengo_map once _find_map_header has returned header, or raised
UpdateFromHeader(file, entries, header) ==
    IF header.idx = -1 THEN Raised("TengoMapError", file)
    ELSE CollectAndApply(file, entries, header, _find_map_end(file.lines, header.idx))

\* update_tengo_map testing the map name before the path
UpdateTengoMapNameFirst(file, map_name, entries) ==
    IF map_name = <<>> THEN Raised("TengoMapError", file)
    ELSE IF ~file.exists THEN Raised("FileNotFoundError", file)
    ELSE UpdateFromHeader(file, entries, _find_map_header(file.lines, map_name))

\* update_tengo_map(tengo_path, map_name, entries): what it returns or raises,
\* the file it leaves and the number of writes it made
update_tengo_map(file, map_name, entries) ==
    IF ~file.exists THEN Raised("FileNotFoundError", file)
    ELSE IF map_name = <<>> THEN Raised("TengoMapError", file)
    ELSE UpdateFromHeader(file, entries, _find_map_header(file.lines, map_name))

-----------------------------------------------------------------------------
(* Inputs of the Tengo model.                                              *)

G_Header == <<"a","l","l","o","w"," ",":","="," ","{">>
G_EntryA == <<" "," ","\"","A","\"",":"," ","t","r","u","e",",">>
G_EntryB == <<" "," "," "," ","\"","B","\"",":"," ","1","0",","," ","/","/"," ","c">>
G_EntryF == <<" "," ","\"","F","\"",":"," ","1","0",".","0",",">>
G_EntryC == <<" "," ","\"","C","\"",":"," ","1",","," ","/","/"," ","x",",">>
G_EntryK == <<" "," ","\"","K","\"",":"," ","n","a","n",",">>
G_Note == <<" "," ","/","/"," ","n","o","t","e">>
G_Close == <<"}">>
G_Top == <<"/","/"," ","t","o","p">>
G_After == <<"x"," ",":","="," ","1">>
N_allow == <<"a","l","l","o","w">>
N_deny == <<"d","e","n","y">>

TgBodyLines == {G_EntryA, G_EntryB, G_EntryF, G_EntryC, G_EntryK, G_Note}

\* the scripts update_tengo_map may find: none, or an optional leading line, an
\* optional header, up to MaxTgBody body lines, and a block closed, left open, or
\* closed and followed by another line; with or without a final line terminator
TgInputs ==
    {NoFile} \cup
    {[exists |-> TRUE, lines |-> pre \o hdr \o body \o tail,
      nl |-> nl /\ (pre \o hdr \o body \o tail) # <<>>] :
        pre \in {<<>>, <<G_Top>>}, hdr \in {<<>>, <<G_Header>>},
        body \in SeqsUpTo(TgBodyLines, MaxTgBody),
        tail \in {<<>>, <<G_Close>>, <<G_Close, G_After>>},
        nl \in BOOLEAN}

\* the entries mappings passed to update_tengo_map
TgEntries ==
    { <<>>,
      <<KV(<<"A">>, PyBool(TRUE))>>,
      <<KV(<<"B">>, PyFloat(100))>>,
      <<KV(<<"A">>, PyBool(TRUE)), KV(<<"B">>, PyInt(10))>>,
      <<KV(<<"B">>, PyInt(11))>>,
      <<KV(<<"A">>, PyInt(1))>>,
      <<KV(<<"N">>, PyBool(TRUE))>>,
      <<KV(<<"F">>, PyInt(10))>>,
      <<KV(<<"C">>, PyInt(2))>>,
      <<KV(<<"Q", "\"">>, PyBool(TRUE))>>,
      <<KV(<<"K">>, PyNaN)>>,
      <<KV(<<"N">>, PyBool(TRUE)), KV(<<"A">>, PyBool(FALSE)), KV(<<"M">>, PyStr(<<"x">>))>> }

\* the (map_name, entries) arguments of update_tengo_map
TgCalls ==
    {[map_name |-> N_allow, entries |-> e] : e \in TgEntries}
    \cup {[map_name |-> n, entries |-> <<KV(<<"A">>, PyBool(TRUE))>>] : n \in {<<>>, N_deny}}

NoReturn == [status |-> "none", updated |-> 0, wrote_file |-> FALSE]

TgIdle ==
    /\ tg_file = NoFile
    /\ tg_prev = NoFile
    /\ tg_call = [map_name |-> <<>>, entries |-> <<>>]
    /\ tg_ret = NoReturn
    /\ tg_writes = 0
    /\ tg_runs = 0

\* no source list file, no parse_source_entries call and no command yet
SrcIdle ==
    /\ src_file = NoFile
    /\ src_mode = "true"
    /\ src_ret = [status |-> "none", entries_provided |-> 0, parsed |-> <<>>]
    /\ cmd_ret = [status |-> "none", entries_provided |-> 0, updated |-> 0]

\* update_tengo_map(tengo_path, map_name, entries) with the arguments tg_call
UpdateTengoMap ==
    /\ tg_runs < MaxTgRuns
    /\ LET r == update_tengo_map(tg_file, tg_call.map_name, tg_call.entries)
       IN /\ tg_prev' = tg_file
          /\ tg_file' = r.file
          /\ tg_ret' = r.ret
          /\ tg_writes' = r.writes
          /\ tg_runs' = tg_runs + 1
          /\ UNCHANGED <<tg_call, src_vars, ini_vars, mk_vars, mg_vars, ext_vars>>

-----------------------------------------------------------------------------
(* tengo_map.py: parse_source_entries, and the update-tengo-map command of *)
(* stilyagi.py that feeds its result to update_tengo_map.                  *)

\* MapValueType
MapValueType == {"true", "=", "=b", "=n"}

\* a parsed token: [ok, key, value], ok FALSE when TengoMapError is raised
TokenError == [ok |-> FALSE, key |-> <<>>, value |-> PyBool(FALSE)]
Token(key, value) == [ok |-> TRUE, key |-> key, value |-> value]

\* _parse_string_value(value)
_parse_string_value(value) ==
    IF Len(Strip(value)) >= 2 /\ Strip(value)[1] = "\"" /\ Last(Strip(value)) = "\""
    THEN IF JsonUnescape(SubSeq(Strip(value), 2, Len(Strip(value)) - 1)).ok
         THEN Token(<<>>, PyStr(JsonUnescape(SubSeq(Strip(value), 2,
                                                    Len(Strip(value)) - 1)).s))
         ELSE Token(<<>>, PyStr(StripQuotes(Strip(value))))
    ELSE Token(<<>>, PyStr(Strip(value)))

\* _parse_boolean_value(value)
_parse_boolean_value(value) ==
    IF Lower(Strip(value)) = W_true THEN Token(<<>>, PyBool(TRUE))
    ELSE IF Lower(Strip(value)) = W_false THEN Token(<<>>, PyBool(FALSE))
    ELSE TokenError

\* _parse_numeric_value(value)
_parse_numeric_value(value) ==
    IF IsIntLiteral(Strip(value)) THEN Token(<<>>, PyInt(IntOf(Strip(value))))
    ELSE IF IsFloatLiteral(Strip(value)) THEN Token(<<>>, ParseFloat(Strip(value)))
    ELSE TokenError

\* the parser _parse_token selects for a typed mode, applied to value
ParseTyped(value, value_type) ==
    CASE value_type = "=" -> _parse_string_value(value)
      [] value_type = "=b" -> _parse_boolean_value(value)
      [] OTHER -> _parse_numeric_value(value)

\* _parse_token once the token is split at its first "=" into key and raw_value
ParseSplit(key, raw_value, value_type) ==
    IF key = <<>> THEN TokenError
    ELSE IF ~ParseTyped(Strip(raw_value), value_type).ok THEN TokenError
    ELSE Token(key, ParseTyped(Strip(raw_value), value_type).value)

\* _parse_token(token, value_type)
_parse_token(token, value_type) ==
    IF value_type = "true" THEN Token(token, PyBool(TRUE))
    ELSE IF Find(token, "=") = 0 THEN TokenError
    ELSE ParseSplit(Strip(SubSeq(token, 1, Find(token, "=") - 1)),
                    SubSeq(token, Find(token, "=") + 1, Len(token)), value_type)

\* re.sub(r"\s+(#.*)?$", "", raw_line): the line up to the first run of
\* whitespace that ends the line or is followed by "#"
StripTrailingComment(raw_line) ==
    LET cut == {i \in 1..Len(raw_line) :
                   /\ IsSpace(raw_line[i])
                   /\ \/ SkipSpace(raw_line, i) > Len(raw_line)
                      \/ raw_line[SkipSpace(raw_line, i)] = "#"}
    IN IF cut = {} THEN raw_line ELSE SubSeq(raw_line, 1, Min(cut) - 1)

\* re.match(r"^\s*#", raw_line)
IsSourceComment(raw_line) == LStrip(raw_line) # <<>> /\ LStrip(raw_line)[1] = "#"

\* what parse_source_entries has so far: a raise, or the count and the mapping
SourceParsed(entries_provided, parsed) ==
    [status |-> "ok", entries_provided |-> entries_provided, parsed |-> parsed]
SourceRaised(exc) == [status |-> exc, entries_provided |-> 0, parsed |-> <<>>]

\* CountToken keeping the value a key already has
CountTokenFirstWins(st, parsed_token) ==
    IF ~parsed_token.ok THEN SourceRaised("TengoMapError")
    ELSE SourceParsed(st.entries_provided + 1,
                      IF DictHas(st.parsed, parsed_token.key) THEN st.parsed
                      ELSE DictSet(st.parsed, parsed_token.key, parsed_token.value))

\* the end of one iteration of the loop of parse_source_entries, for a token
\* that _parse_token has parsed or refused
CountToken(st, parsed_token) ==
    IF ~parsed_token.ok THEN SourceRaised("TengoMapError")
    ELSE SourceParsed(st.entries_provided + 1,
                      DictSet(st.parsed, parsed_token.key, parsed_token.value))

\* ParseSourceLine passing over a token that _parse_token refuses
ParseSourceLineSkipsMalformed(st, raw_line, value_type) ==
    IF st.status # "ok" THEN st
    ELSE IF Strip(raw_line) = <<>> THEN st
    ELSE IF IsSourceComment(raw_line) THEN st
    ELSE IF Strip(StripTrailingComment(raw_line)) = <<>> THEN st
    ELSE IF ~_parse_token(Strip(StripTrailingComment(raw_line)), value_type).ok THEN st
    ELSE CountToken(st, _parse_token(Strip(StripTrailingComment(raw_line)), value_type))

\* one iteration of the loop of parse_source_entries
ParseSourceLine(st, raw_line, value_type) ==
    IF st.status # "ok" THEN st
    ELSE IF Strip(raw_line) = <<>> THEN st
    ELSE IF IsSourceComment(raw_line) THEN st
    ELSE IF Strip(StripTrailingComment(raw_line)) = <<>> THEN st
    ELSE CountToken(st, _parse_token(Strip(StripTrailingComment(raw_line)), value_type))

RECURSIVE ParseSourceLines(_, _, _)
ParseSourceLines(st, lines, value_type) ==
    IF lines = <<>> THEN st
    ELSE ParseSourceLines(ParseSourceLine(st, lines[1], value_type), Tail(lines),
                          value_type)

\* parse_source_entries(source, value_type): [status, entries_provided, parsed]
parse_source_entries(source, value_type) ==
    IF ~source.exists THEN SourceRaised("FileNotFoundError")
    ELSE ParseSourceLines(SourceParsed(0, <<>>), source.lines, value_type)

\* how the command ends: SystemExit, or the counts of its message
CommandExit == [status |-> "SystemExit", entries_provided |-> 0, updated |-> 0]
CommandMessage(entries_provided, updated) ==
    [status |-> "ok", entries_provided |-> entries_provided, updated |-> updated]

\* update_tengo_map_command once parse_source_entries has returned p
CommandUpdate(dest, map_name, p, r) ==
    IF r.ret.status # "ok"
    THEN [cmd |-> CommandExit, tg |-> r]
    ELSE [cmd |-> CommandMessage(p.entries_provided, r.ret.updated), tg |-> r]

\* update_tengo_map_command once parse_source_entries has returned p, or raised
CommandAfterParse(dest, map_name, p) ==
    IF p.status # "ok"
    THEN [cmd |-> CommandExit, called |-> FALSE,
          tg |-> [ret |-> NoReturn, file |-> dest, writes |-> 0]]
    ELSE [called |-> TRUE] @@
         CommandUpdate(dest, map_name, p, update_tengo_map(dest, map_name, p.parsed))

\* update_tengo_map_command(source, dest, value_type) for a dest naming
\* map_name: how it ends and, when update_tengo_map was called, what that did
update_tengo_map_command(source, dest, map_name, value_type) ==
    CHOOSE c \in {CommandAfterParse(dest, map_name, p) :
                     p \in {parse_source_entries(source, value_type)}} : TRUE

-----------------------------------------------------------------------------
(* Inputs of the command model.                                            *)

Q_Blank == <<>>
Q_Comment == <<" ","#","c">>
Q_Key == <<"A">>
Q_KeyComment == <<"A"," ","#","c">>
Q_One == <<"A","=","1">>
Q_True == <<"B","=","t","r","u","e">>
Q_Two == <<"A"," ","="," ","2">>

SrcInputLines == {Q_Blank, Q_Comment, Q_Key, Q_KeyComment, Q_One, Q_True, Q_Two}

\* the source list files the command may find: none, or up to MaxSrcLines lines
SrcInputs ==
    {NoFile} \cup
    {[exists |-> TRUE, lines |-> lines, nl |-> lines # <<>>] :
        lines \in SeqsUpTo(SrcInputLines, MaxSrcLines)}

\* the Tengo scripts the command may be pointed at
CmdDests ==
    {NoFile, Text(<<G_Header, G_Close>>), Text(<<G_Header, G_EntryA, G_Close>>),
     Text(<<G_Header, G_EntryA>>)}

\* parse_source_entries(source, value_type) called on its own
ParseSourceEntries ==
    /\ src_ret.status = "none"
    /\ src_ret' = parse_source_entries(src_file, src_mode)
    /\ UNCHANGED <<src_file, src_mode, cmd_ret, tg_vars, ini_vars, mk_vars, mg_vars, ext_vars>>

\* the update-tengo-map command on source src_file and dest tg_file::map_name
UpdateTengoMapCommand ==
    /\ tg_runs < MaxTgRuns
    /\ \E c \in {update_tengo_map_command(src_file, tg_file, tg_call.map_name, src_mode)} :
          /\ cmd_ret' = c.cmd
          /\ tg_call' = [tg_call EXCEPT !.entries =
                            IF c.called
                            THEN parse_source_entries(src_file, src_mode).parsed
                            ELSE @]
          /\ tg_prev' = tg_file
          /\ tg_file' = c.tg.file
          /\ tg_ret' = c.tg.ret
          /\ tg_writes' = c.tg.writes
          /\ tg_runs' = tg_runs + 1
          /\ UNCHANGED <<src_file, src_mode, src_ret, ini_vars, mk_vars, mg_vars, ext_vars>>

-----------------------------------------------------------------------------
(* Inputs of _merge_and_order_section taken alone.                         *)

MgKeys == {<<"a">>, <<"b">>, <<"c">>}
MgValues == {<<"1">>, <<"2">>}

\* every dict of at most MaxDictLen items over MgKeys and MgValues
MgDicts ==
    {d \in SeqsUpTo([k : MgKeys, v : MgValues], MaxDictLen) :
        \A i, j \in 1..Len(d) : d[i].k = d[j].k => i = j}

MgIdle ==
    /\ mg_existing = <<>>
    /\ mg_required = <<>>
    /\ mg_result = <<>>
    /\ mg_done = FALSE

\* _merge_and_order_section(existing, required)
MergeAndOrderSection ==
    /\ ~mg_done
    /\ mg_result' = _merge_and_order_section(mg_existing, mg_required)
    /\ mg_done' = TRUE
    /\ UNCHANGED <<mg_existing, mg_required, ini_vars, mk_vars, tg_vars, src_vars, ext_vars>>

-----------------------------------------------------------------------------
(* _replace_vale_target taken alone.                                       *)

RtIdle ==
    /\ rt_lines = <<>>
    /\ rt_ret = [done |-> FALSE, lines |-> <<>>]

\* _replace_vale_target(lines)
ReplaceValeTarget ==
    /\ ~rt_ret.done
    /\ rt_ret' = [done |-> TRUE, lines |-> _replace_vale_target(rt_lines)]
    /\ UNCHANGED <<rt_lines, me_vars, ref_vars, app_vars, ini_vars, mk_vars,
                   tg_vars, src_vars, mg_vars>>

-----------------------------------------------------------------------------
(* _find_map_end taken alone.                                              *)

E_Open == <<" "," ","\"","X","\"",":"," ","{">>
E_Both == <<" "," ","\"","Y","\"",":"," ","{","}",",">>
E_CloseTwo == <<"}","}">>

MeInputLines == {G_EntryA, G_Close, E_Open, E_Both, E_CloseTwo}

MeIdle ==
    /\ me_lines = <<>>
    /\ me_start = 0
    /\ me_ret = [status |-> "none", idx |-> 0]

\* _find_map_end(lines, start_idx): the index, or TengoMapError
FindMapEnd ==
    /\ me_ret.status = "none"
    /\ me_ret' = IF _find_map_end(me_lines, me_start) = -1
                 THEN [status |-> "TengoMapError", idx |-> 0]
                 ELSE [status |-> "ok", idx |-> _find_map_end(me_lines, me_start)]
    /\ UNCHANGED <<me_lines, me_start, rt_vars, ref_vars, app_vars, ini_vars,
                   mk_vars, tg_vars, src_vars, mg_vars>>

-----------------------------------------------------------------------------
(* stilyagi_install.py: _parse_repo_reference.                             *)

T_ValeSuffix == <<"-","v","a","l","e">>

\* str.removesuffix(suffix)
RemoveSuffix(s, suffix) ==
    IF suffix # <<>> /\ EndsWith(s, suffix)
    THEN SubSeq(s, 1, Len(s) - Len(suffix)) ELSE s

\* _style_name_for_repo without its fallback to repo_name
StyleNameAlwaysStripped(repo_name) == RemoveSuffix(repo_name, T_ValeSuffix)

\* _style_name_for_repo(repo_name)
_style_name_for_repo(repo_name) ==
    IF RemoveSuffix(repo_name, T_ValeSuffix) # <<>>
    THEN RemoveSuffix(repo_name, T_ValeSuffix) ELSE repo_name

RefRaised == [status |-> "ValueError", owner |-> <<>>, repo_name |-> <<>>,
              style_name |-> <<>>]

\* _parse_repo_reference once repo is split at its one "/" and the parts stripped
RefFromParts(owner, repo_name) ==
    IF owner = <<>> \/ repo_name = <<>> THEN RefRaised
    ELSE [status |-> "ok", owner |-> owner, repo_name |-> repo_name,
          style_name |-> _style_name_for_repo(repo_name)]

\* _parse_repo_reference(repo): (owner, repo_name, style_name), or ValueError
_parse_repo_reference(repo) ==
    IF Count(repo, "/") # 1 THEN RefRaised
    ELSE RefFromParts(Strip(SubSeq(repo, 1, Find(repo, "/") - 1)),
                      Strip(SubSeq(repo, Find(repo, "/") + 1, Len(repo))))

\* the segments references are made of, and the references: up to
\* MaxRefSegments segments joined by "/"
RefSegments ==
    { <<>>, <<" ">>, <<"o">>, <<" ","o"," ">>, <<"r">>, <<"r","-","v","a","l","e">>,
      <<"-","v","a","l","e">>, <<"x","-","v","a","l","e","-","v","a","l","e">> }

RECURSIVE JoinSlash(_)
JoinSlash(segments) ==
    IF Len(segments) = 1 THEN segments[1]
    ELSE segments[1] \o <<"/">> \o JoinSlash(Tail(segments))

RefInputs ==
    {JoinSlash(segments) : segments \in SeqsUpTo(RefSegments, MaxRefSegments) \ {<<>>}}

RefIdle ==
    /\ ref_repo = <<>>
    /\ ref_ret = [status |-> "none", owner |-> <<>>, repo_name |-> <<>>,
                  style_name |-> <<>>]

\* _parse_repo_reference(repo)
ParseRepoReference ==
    /\ ref_ret.status = "none"
    /\ ref_ret' = _parse_repo_reference(ref_repo)
    /\ UNCHANGED <<ref_repo, rt_vars, me_vars, app_vars, ini_vars, mk_vars,
                   tg_vars, src_vars, mg_vars>>

-----------------------------------------------------------------------------
(* stilyagi_packaging.py: package_styles.                                  *)
(* The styles directory is a record [exists, dirs, vocabs]: the names of   *)
(* the directories right under it and of the directories under its         *)
(* config/vocabularies (none when that directory is missing: both cases    *)
(* give no vocabulary).  The output directory is a function from the file  *)
(* names in it to the archives; an archive is a record [ini, dirs] of the  *)
(* lines of its .vale.ini member and the directories whose files it holds. *)
(* None and the empty str or list are both <<>>: the code tests them for   *)
(* truth only.                                                             *)

T_config == <<"c","o","n","f","i","g">>
T_styles == <<"s","t","y","l","e","s">>
T_StylesPathIs == <<"S","t","y","l","e","s","P","a","t","h"," ","="," ">>
T_VocabIs == <<"V","o","c","a","b"," ","="," ">>
T_zip == <<".","z","i","p">>

PkgRaised(status) == [status |-> status, names |-> <<>>]

\* _discover_style_names(styles_root, explicit)
_discover_style_names(tree, explicit) ==
    IF explicit # <<>>
    THEN IF Range(explicit) \subseteq tree.dirs
         THEN [status |-> "ok", names |-> Sorted(Range(explicit))]
         ELSE PkgRaised("FileNotFoundError")
    ELSE IF tree.dirs \ {T_config} = {} THEN PkgRaised("RuntimeError")
         ELSE [status |-> "ok", names |-> Sorted(tree.dirs \ {T_config})]

\* _select_vocabulary(styles_root, override): a name, or <<>> for None
_select_vocabulary(tree, override) ==
    IF override # <<>> THEN override
    ELSE IF Cardinality(tree.vocabs) = 1 THEN Sorted(tree.vocabs)[1]
    ELSE <<>>

\* _build_ini(styles_path_entry, vocabulary): the lines of the text, which
\* ends with a line terminator
_build_ini(styles_path_entry, vocabulary) ==
    <<T_StylesPathIs \o styles_path_entry>>
        \o (IF vocabulary # <<>> THEN <<T_VocabIs \o vocabulary>> ELSE <<>>)

\* "-".join(names) for a non-empty list
RECURSIVE JoinDash(_)
JoinDash(names) ==
    IF Len(names) = 1 THEN names[1]
    ELSE names[1] \o <<"-">> \o JoinDash(Tail(names))

\* the name of the archive file for the styles and the version
ArchiveName(styles, version) == JoinDash(styles) \o <<"-">> \o version \o T_zip

\* the directories _add_styles_to_archive takes files from
IncludeDirs(tree, styles) ==
    styles \o (IF T_config \in tree.dirs THEN <<T_config>> ELSE <<>>)

\* the output directory with the archive written under name
WithArchive(out, name, archive) ==
    [n \in DOMAIN out \cup {name} |-> IF n = name THEN archive ELSE out[n]]

\* package_styles that overwrites an archive whether or not force is set
ArchiveNeverBlocked(out, name, force) == FALSE

\* whether package_styles refuses to write the archive
ArchiveBlocked(out, name, force) == name \in DOMAIN out /\ ~force

\* package_styles from ZipFile(archive_path, mode="w") on: the file is
\* created or truncated, the .vale.ini member written, and the style files
\* added unless the StylesPath inside the archive is absolute
WriteArchive(tree, out, call, styles, name) ==
    IF StartsWith(call.ini_styles_path, <<"/">>)
    THEN [status |-> "ValueError", wrote |-> TRUE, name |-> name,
          out |-> WithArchive(out, name,
                     [ini |-> _build_ini(call.ini_styles_path,
                                         _select_vocabulary(tree, call.vocabulary)),
                      dirs |-> <<>>])]
    ELSE [status |-> "ok", wrote |-> TRUE, name |-> name,
          out |-> WithArchive(out, name,
                     [ini |-> _build_ini(call.ini_styles_path,
                                         _select_vocabulary(tree, call.vocabulary)),
                      dirs |-> IncludeDirs(tree, styles)])]

\* package_styles once the style names are known
PackageNamed(tree, out, call, styles) ==
    IF ArchiveBlocked(out, ArchiveName(styles, call.version), call.force)
    THEN [status |-> "FileExistsError", wrote |-> FALSE,
          name |-> ArchiveName(styles, call.version), out |-> out]
    ELSE WriteArchive(tree, out, call, styles, ArchiveName(styles, call.version))

\* package_styles(...): what it returned or raised, and the output directory
package_styles(tree, out, call) ==
    IF ~tree.exists
    THEN [status |-> "FileNotFoundError", wrote |-> FALSE, name |-> <<>>, out |-> out]
    ELSE IF _discover_style_names(tree, call.explicit_styles).status # "ok"
    THEN [status |-> _discover_style_names(tree, call.explicit_styles).status,
          wrote |-> FALSE, name |-> <<>>, out |-> out]
    ELSE PackageNamed(tree, out, call,
                      _discover_style_names(tree, call.explicit_styles).names)

\* inputs: style directories, output directories and calls
PkgTrees ==
    { [exists |-> FALSE, dirs |-> {}, vocabs |-> {}],
      [exists |-> TRUE, dirs |-> {}, vocabs |-> {}],
      [exists |-> TRUE, dirs |-> {T_config}, vocabs |-> {<<"w">>}],
      [exists |-> TRUE, dirs |-> {<<"a">>}, vocabs |-> {}],
      [exists |-> TRUE, dirs |-> {<<"a">>, <<"b">>, T_config}, vocabs |-> {<<"w">>}],
      [exists |-> TRUE, dirs |-> {<<"a">>, <<"b">>, <<"a","-","b">>, T_config},
       vocabs |-> {<<"w">>, <<"x">>}] }

OldArchive == [ini |-> <<<<"o","l","d">>>>, dirs |-> <<>>]

PkgOuts ==
    { <<>>, WithArchive(<<>>, <<"a","-","1",".","z","i","p">>, OldArchive) }

PkgCalls ==
    [explicit_styles : {<<>>, <<<<"a">>>>, <<<<"b">>, <<"a">>, <<"b">>>>,
                        <<<<"a","-","b">>>>},
     vocabulary : {<<>>, <<"v">>},
     version : {<<"1">>},
     ini_styles_path : {T_styles, <<"/","s">>},
     force : BOOLEAN]

NoPkgCall == [explicit_styles |-> <<>>, vocabulary |-> <<>>, version |-> <<>>,
              ini_styles_path |-> <<>>, force |-> FALSE]
NoPkgTree == [exists |-> FALSE, dirs |-> {}, vocabs |-> {}]
NoPkgReturn == [status |-> "none", wrote |-> FALSE, name |-> <<>>]

PkgIdle ==
    /\ pkg_tree = NoPkgTree
    /\ pkg_out = <<>>
    /\ pkg_prev = <<>>
    /\ pkg_call = NoPkgCall
    /\ pkg_ret = NoPkgReturn
    /\ pkg_runs = 0

\* package_styles(...) called with the styles and output directories as they are
PackageStyles ==
    /\ pkg_runs < MaxPkgRuns
    /\ \E call \in PkgCalls :
          \E r \in {package_styles(pkg_tree, pkg_out, call)} :
              /\ pkg_call' = call
              /\ pkg_prev' = pkg_out
              /\ pkg_out' = r.out
              /\ pkg_ret' = [status |-> r.status, wrote |-> r.wrote, name |-> r.name]
    /\ pkg_runs' = pkg_runs + 1
    /\ UNCHANGED <<pkg_tree, inst_vars, fn_vars, ini_vars, mk_vars, tg_vars,
                   src_vars, mg_vars>>

-----------------------------------------------------------------------------
(* stilyagi_install.py: _perform_install, one action per step.  What the   *)
(* network answers is the environment's choice at the step that asks; a    *)
(* read or write of a file either works or raises OSError before the file  *)
(* is touched.                                                             *)

PyNone == [t |-> "none", n |-> 0, s |-> <<>>]

T_UrlHead == <<"h","t","t","p","s",":","/","/","g","i","t","h","u","b",".","c","o","m","/">>
T_UrlDownload == <<"/","r","e","l","e","a","s","e","s","/","d","o","w","n","l","o","a","d","/">>
T_warning == <<"w","a","r","n","i","n","g">>

\* _strip_version_prefix(tag)
_strip_version_prefix(tag) ==
    IF tag # <<>> /\ tag[1] \in {"v", "V"} THEN Tail(tag) ELSE tag

\* _select_tag_and_version that takes any tag_name that is a str
SelectTagUnchecked(payload) ==
    IF payload.tag_name.t # "str"
    THEN [status |-> "RuntimeError", tag |-> <<>>, version |-> <<>>]
    ELSE [status |-> "ok", tag |-> Strip(payload.tag_name.s),
          version |-> _strip_version_prefix(Strip(payload.tag_name.s))]

\* _select_tag_and_version(payload): (tag, version), or RuntimeError
_select_tag_and_version(payload) ==
    IF payload.tag_name.t # "str" \/ Strip(payload.tag_name.s) = <<>>
    THEN [status |-> "RuntimeError", tag |-> <<>>, version |-> <<>>]
    ELSE [status |-> "ok", tag |-> Strip(payload.tag_name.s),
          version |-> _strip_version_prefix(Strip(payload.tag_name.s))]

\* _find_zip_asset(assets): the first name that ends with ".zip", or <<>>;
\* assets is the list of the "name" of each asset, PyNone where it has none
_find_zip_asset(assets) ==
    IF \E i \in 1..Len(assets) : assets[i].t = "str" /\ EndsWith(assets[i].s, T_zip)
    THEN assets[Min({i \in 1..Len(assets) :
                        assets[i].t = "str" /\ EndsWith(assets[i].s, T_zip)})].s
    ELSE <<>>

\* _pick_asset_name(payload, expected_name)
_pick_asset_name(payload, expected_name) ==
    IF ~payload.assets_is_list THEN expected_name
    ELSE IF \E i \in 1..Len(payload.assets) : payload.assets[i] = PyStr(expected_name)
    THEN expected_name
    ELSE IF _find_zip_asset(payload.assets) # <<>> THEN _find_zip_asset(payload.assets)
    ELSE expected_name

\* _build_packages_url(repo, tag, asset)
_build_packages_url(repo, tag, asset) ==
    T_UrlHead \o repo \o T_UrlDownload \o tag \o <<"/">> \o asset

\* f"{style_name}-{version}.zip"
ExpectedAsset(style_name, version) == style_name \o <<"-">> \o version \o T_zip

ReleaseRaised(status) ==
    [status |-> status, version |-> <<>>, tag |-> <<>>, packages_url |-> <<>>]

\* _resolve_release once the payload is fetched and the tag selected
ReleaseFromPayload(repo, style_name, payload, selected) ==
    IF selected.status # "ok" THEN ReleaseRaised(selected.status)
    ELSE [status |-> "ok", version |-> selected.version, tag |-> selected.tag,
          packages_url |->
              _build_packages_url(repo, selected.tag,
                  _pick_asset_name(payload,
                                   ExpectedAsset(style_name, selected.version)))]

\* _resolve_release(repo, style_name, override_version, override_tag), where
\* lookup is what _fetch_latest_release does when it is called
_resolve_release(config, lookup) ==
    IF config.override_version # <<>>
    THEN [status |-> "ok", version |-> config.override_version,
          tag |-> IF config.override_tag # <<>> THEN config.override_tag
                  ELSE <<"v">> \o config.override_version,
          packages_url |->
              _build_packages_url(
                  config.owner \o <<"/">> \o config.repo_name,
                  IF config.override_tag # <<>> THEN config.override_tag
                  ELSE <<"v">> \o config.override_version,
                  ExpectedAsset(config.style_name, config.override_version))]
    ELSE IF lookup.kind # "payload" THEN ReleaseRaised(lookup.kind)
    ELSE ReleaseFromPayload(config.owner \o <<"/">> \o config.repo_name,
                            config.style_name, lookup.payload,
                            _select_tag_and_version(lookup.payload))

\* _pick of _parse_install_manifest that takes any str, blank or not
PickUntrimmed(value, fallback) ==
    IF value.t = "str" THEN value.s ELSE fallback

\* _pick(value, fallback) of _parse_install_manifest
_pick(value, fallback) ==
    IF value.t = "str" /\ Strip(value.s) # <<>> THEN Strip(value.s) ELSE fallback

NoInstallSection == [style_name |-> PyNone, vocab |-> PyNone, min_alert_level |-> PyNone]

\* install_section of _parse_install_manifest; raw is None, or a dict whose
\* "install" is absent, a dict, or some other value
InstallSection(raw) ==
    IF raw.kind = "dict" /\ raw.install_kind = "dict" THEN raw.install
    ELSE NoInstallSection

\* _parse_install_manifest(raw, default_style_name)
_parse_install_manifest(raw, default_style_name) ==
    [style_name |-> _pick(InstallSection(raw).style_name, default_style_name),
     vocab_name |-> _pick(InstallSection(raw).vocab,
                          _pick(InstallSection(raw).style_name, default_style_name)),
     min_alert_level |-> _pick(InstallSection(raw).min_alert_level, T_warning)]

RawNone == [kind |-> "none", install_kind |-> "absent", install |-> NoInstallSection]

\* _load_install_manifest(packages_url, default_style_name), where archive is
\* how the download, the extraction and the parse of stilyagi.toml end:
\* skipped by STILYAGI_SKIP_MANIFEST_DOWNLOAD, an exception, no such member,
\* or a parsed document
_load_install_manifest(archive, default_style_name) ==
    _parse_install_manifest(IF archive.kind = "parsed" THEN archive.raw ELSE RawNone,
                            default_style_name)

\* the arguments _perform_install gives _update_vale_ini
InstallOverlay(release, manifest) ==
    [packages_url |-> release.packages_url, style_name |-> manifest.style_name,
     vocab_name |-> manifest.vocab_name, min_alert_level |-> manifest.min_alert_level]

\* inputs: what install_command builds from the reference "o/s-vale" and its
\* --release-version and --tag options
InstConfigs ==
    { [owner |-> r.owner, repo_name |-> r.repo_name, style_name |-> r.style_name,
       override_version |-> v, override_tag |-> t] :
         r \in {_parse_repo_reference(<<"o","/","s","-","v","a","l","e">>)},
         v \in {<<>>, <<"9">>}, t \in {<<>>, <<"t">>} }

InstAssets ==
    { [is_list |-> FALSE, names |-> <<>>],
      [is_list |-> TRUE, names |-> <<PyStr(<<"s","-","1",".","z","i","p">>)>>],
      [is_list |-> TRUE, names |-> <<PyNone, PyStr(<<"n",".","t","x","t">>),
                                      PyStr(<<"o",".","z","i","p">>)>>] }

InstTagNames ==
    { PyNone, PyInt(1), PyStr(<<>>), PyStr(<<" ">>), PyStr(<<"v","1">>),
      PyStr(<<" ","V","2"," ">>), PyStr(<<"3">>) }

NoPayload == [tag_name |-> PyNone, assets_is_list |-> FALSE, assets |-> <<>>]
NoLookup == [kind |-> "none", payload |-> NoPayload]

\* what _fetch_latest_release does: raises, or returns a payload
Lookups ==
    { [kind |-> k, payload |-> NoPayload] : k \in {"RuntimeError", "JSONDecodeError"} }
    \cup { [kind |-> "payload",
            payload |-> [tag_name |-> t, assets_is_list |-> a.is_list,
                         assets |-> a.names]] : t \in InstTagNames, a \in InstAssets }

InstRaws ==
    { [kind |-> "dict", install_kind |-> k, install |-> NoInstallSection] :
          k \in {"absent", "other"} }
    \cup { [kind |-> "dict", install_kind |-> "dict",
            install |-> [style_name |-> s, vocab |-> v, min_alert_level |-> m]] :
              s \in {PyNone, PyInt(1), PyStr(<<" ">>), PyStr(<<" ","m"," ">>)},
              v \in {PyNone, PyStr(<<>>), PyStr(<<"k">>)},
              m \in {PyNone, PyStr(<<"e","r","r","o","r">>)} }

NoArchive == [kind |-> "none", raw |-> RawNone]

Archives ==
    { [kind |-> k, raw |-> RawNone] :
          k \in {"skip", "RuntimeError", "BadZipFile", "no_member", "TOMLDecodeError"} }
    \cup { [kind |-> "parsed", raw |-> r] : r \in InstRaws }

InstIniInputs == {NoFile, [exists |-> TRUE, lines |-> <<L_Vocab>>, nl |-> TRUE]}
InstMkInputs == {NoFile, [exists |-> TRUE, lines |-> <<M_Lint>>, nl |-> TRUE]}

NoInstConfig == [owner |-> <<>>, repo_name |-> <<>>, style_name |-> <<>>,
                 override_version |-> <<>>, override_tag |-> <<>>]
NoManifest == [style_name |-> <<>>, vocab_name |-> <<>>, min_alert_level |-> <<>>]
NoInstReturn == [status |-> "none", style_name |-> <<>>, version |-> <<>>]

InstIdle ==
    /\ inst_config = NoInstConfig
    /\ inst_pc = "idle"
    /\ inst_start = [ini |-> NoFile, mk |-> NoFile]
    /\ inst_lookup = NoLookup
    /\ inst_release = ReleaseRaised("none")
    /\ inst_archive = NoArchive
    /\ inst_manifest = NoManifest
    /\ inst_log = <<>>
    /\ inst_ret = NoInstReturn

\* _perform_install that goes on to the next step even when the step raised
InstContinues(pc, ok) ==
    CASE pc = "resolve" -> "load"
      [] pc = "load" -> "ini"
      [] pc = "ini" -> "makefile"
      [] pc = "makefile" -> "done"

\* where _perform_install is after the step at pc returned (ok) or raised
InstNextPc(pc, ok) == IF ok THEN InstContinues(pc, ok) ELSE "failed"

InstRaise(status) == [status |-> status, style_name |-> <<>>, version |-> <<>>]

\* _perform_install: the call of _resolve_release
ResolveRelease ==
    /\ inst_pc = "resolve"
    /\ \E lookup \in IF inst_config.override_version # <<>> THEN {NoLookup} ELSE Lookups :
          \E r \in {_resolve_release(inst_config, lookup)} :
              /\ inst_lookup' = lookup
              /\ inst_release' = r
              /\ inst_pc' = InstNextPc(inst_pc, r.status = "ok")
              /\ inst_ret' = IF r.status = "ok" THEN inst_ret ELSE InstRaise(r.status)
    /\ inst_log' = Append(inst_log, inst_pc)
    /\ UNCHANGED <<inst_config, inst_start, inst_archive, inst_manifest, pkg_vars,
                   fn_vars, ini_vars, mk_vars, tg_vars, src_vars, mg_vars>>

\* _perform_install: the call of _load_install_manifest
LoadInstallManifest ==
    /\ inst_pc = "load"
    /\ \E archive \in Archives :
          /\ inst_archive' = archive
          /\ inst_manifest' = _load_install_manifest(archive, inst_config.style_name)
    /\ inst_pc' = InstNextPc(inst_pc, TRUE)
    /\ inst_log' = Append(inst_log, inst_pc)
    /\ UNCHANGED <<inst_config, inst_start, inst_lookup, inst_release, inst_ret,
                   pkg_vars, fn_vars, ini_vars, mk_vars, tg_vars, src_vars, mg_vars>>

\* _perform_install: the call of _update_vale_ini
InstallValeIni ==
    /\ inst_pc = "ini"
    /\ \E ok \in BOOLEAN :
          /\ inst_pc' = InstNextPc(inst_pc, ok)
          /\ IF ok
             THEN /\ ini_prev' = ini_file
                  /\ ini_args' = InstallOverlay(inst_release, inst_manifest)
                  /\ ini_file' = _update_vale_ini(ini_file,
                                     InstallOverlay(inst_release, inst_manifest))
                  /\ ini_op' = "update"
                  /\ inst_ret' = inst_ret
             ELSE /\ inst_ret' = InstRaise("OSError")
                  /\ UNCHANGED ini_vars
    /\ inst_log' = Append(inst_log, inst_pc)
    /\ UNCHANGED <<inst_config, inst_start, inst_lookup, inst_release, inst_archive,
                   inst_manifest, pkg_vars, fn_vars, mk_vars, tg_vars, src_vars, mg_vars>>

\* _perform_install: the call of _update_makefile, and the message
InstallMakefile ==
    /\ inst_pc = "makefile"
    /\ \E ok \in BOOLEAN :
          /\ inst_pc' = InstNextPc(inst_pc, ok)
          /\ IF ok
             THEN /\ mk_prev' = mk_file
                  /\ mk_file' = _update_makefile(mk_file)
                  /\ mk_op' = "update"
                  /\ inst_ret' = [status |-> "ok",
                                  style_name |-> inst_manifest.style_name,
                                  version |-> inst_release.version]
             ELSE /\ inst_ret' = InstRaise("OSError")
                  /\ UNCHANGED mk_vars
    /\ inst_log' = Append(inst_log, inst_pc)
    /\ UNCHANGED <<inst_config, inst_start, inst_lookup, inst_release, inst_archive,
                   inst_manifest, pkg_vars, fn_vars, ini_vars, tg_vars, src_vars, mg_vars>>

AppIdle == PkgIdle /\ InstIdle

FnIdle == RtIdle /\ MeIdle /\ RefIdle
ExtIdle == FnIdle /\ AppIdle

-----------------------------------------------------------------------------
(* Specifications: one per artifact, the others left alone.                *)

InitIni ==
    /\ ini_file \in IniInputs
    /\ ini_prev = NoFile
    /\ ini_args = NoOverlay
    /\ ini_op = "init"
    /\ MkIdle /\ TgIdle /\ SrcIdle /\ MgIdle /\ ExtIdle

NextIni == \E a \in Overlays : UpdateValeIni(a)

SpecIni == InitIni /\ [][NextIni]_vars

InitMk ==
    /\ mk_file \in MkInputs
    /\ mk_prev = NoFile
    /\ mk_op = "init"
    /\ IniIdle /\ TgIdle /\ SrcIdle /\ MgIdle /\ ExtIdle

NextMk == UpdateMakefile

SpecMk == InitMk /\ [][NextMk]_vars

InitTg ==
    /\ tg_file \in TgInputs
    /\ tg_prev = NoFile
    /\ tg_call \in TgCalls
    /\ tg_ret = NoReturn
    /\ tg_writes = 0
    /\ tg_runs = 0
    /\ SrcIdle /\ IniIdle /\ MkIdle /\ MgIdle /\ ExtIdle

NextTg == UpdateTengoMap

SpecTg == InitTg /\ [][NextTg]_vars

InitMg ==
    /\ mg_existing \in MgDicts
    /\ mg_required \in MgDicts
    /\ mg_result = <<>>
    /\ mg_done = FALSE
    /\ IniIdle /\ MkIdle /\ TgIdle /\ SrcIdle /\ ExtIdle

NextMg == MergeAndOrderSection

SpecMg == InitMg /\ [][NextMg]_vars

InitCmd ==
    /\ src_file \in SrcInputs
    /\ src_mode \in MapValueType
    /\ src_ret = [status |-> "none", entries_provided |-> 0, parsed |-> <<>>]
    /\ cmd_ret = [status |-> "none", entries_provided |-> 0, updated |-> 0]
    /\ tg_file \in CmdDests
    /\ tg_prev = NoFile
    /\ tg_call = [map_name |-> N_allow, entries |-> <<>>]
    /\ tg_ret = NoReturn
    /\ tg_writes = 0
    /\ tg_runs = 0
    /\ IniIdle /\ MkIdle /\ MgIdle /\ ExtIdle

NextCmd == ParseSourceEntries \/ UpdateTengoMapCommand

SpecCmd == InitCmd /\ [][NextCmd]_vars

InitRt ==
    /\ rt_lines \in SeqsUpTo(MkInputLines, MaxMkLines)
    /\ rt_ret = [done |-> FALSE, lines |-> <<>>]
    /\ MeIdle /\ RefIdle /\ AppIdle
    /\ IniIdle /\ MkIdle /\ TgIdle /\ SrcIdle /\ MgIdle

NextRt == ReplaceValeTarget

SpecRt == InitRt /\ [][NextRt]_vars

InitEnd ==
    /\ me_lines \in SeqsUpTo(MeInputLines, MaxEndLines) \ {<<>>}
    /\ me_start \in 0..(Len(me_lines) - 1)
    /\ me_ret = [status |-> "none", idx |-> 0]
    /\ RtIdle /\ RefIdle /\ AppIdle
    /\ IniIdle /\ MkIdle /\ TgIdle /\ SrcIdle /\ MgIdle

NextEnd == FindMapEnd

SpecEnd == InitEnd /\ [][NextEnd]_vars

InitRef ==
    /\ ref_repo \in RefInputs
    /\ ref_ret = [status |-> "none", owner |-> <<>>, repo_name |-> <<>>,
                  style_name |-> <<>>]
    /\ RtIdle /\ MeIdle /\ AppIdle
    /\ IniIdle /\ MkIdle /\ TgIdle /\ SrcIdle /\ MgIdle

NextRef == ParseRepoReference

SpecRef == InitRef /\ [][NextRef]_vars

InitPkg ==
    /\ pkg_tree \in PkgTrees
    /\ pkg_out \in PkgOuts
    /\ pkg_prev = <<>>
    /\ pkg_call = NoPkgCall
    /\ pkg_ret = NoPkgReturn
    /\ pkg_runs = 0
    /\ InstIdle /\ FnIdle
    /\ IniIdle /\ MkIdle /\ TgIdle /\ SrcIdle /\ MgIdle

NextPkg == PackageStyles

SpecPkg == InitPkg /\ [][NextPkg]_vars

InitInst ==
    /\ inst_config \in InstConfigs
    /\ inst_pc = "resolve"
    /\ ini_file \in InstIniInputs
    /\ ini_prev = NoFile
    /\ ini_args = NoOverlay
    /\ ini_op = "init"
    /\ mk_file \in InstMkInputs
    /\ mk_prev = NoFile
    /\ mk_op = "init"
    /\ inst_start = [ini |-> ini_file, mk |-> mk_file]
    /\ inst_lookup = NoLookup
    /\ inst_release = ReleaseRaised("none")
    /\ inst_archive = NoArchive
    /\ inst_manifest = NoManifest
    /\ inst_log = <<>>
    /\ inst_ret = NoInstReturn
    /\ PkgIdle /\ FnIdle
    /\ TgIdle /\ SrcIdle /\ MgIdle

NextInst == ResolveRelease \/ LoadInstallManifest \/ InstallValeIni \/ InstallMakefile

SpecInst == InitInst /\ [][NextInst]_vars

-----------------------------------------------------------------------------
(* Reading the rendered .vale.ini back as text.                            *)

SectionHeader(name) == <<"[">> \o name \o <<"]">>
IsSectionHeader(line) == line # <<>> /\ line[1] = "[" /\ Last(line) = "]"
IsCommentLine(line) == line # <<>> /\ line[1] = "#"

\* the names of the section headers of lines, in order
HeaderNames(lines) ==
    LET hs == SelectSeq(lines, IsSectionHeader)
    IN [i \in 1..Len(hs) |-> SubSeq(hs[i], 2, Len(hs[i]) - 1)]

\* the lines from index from up to the next empty line, comments left out
BlockFrom(lines, from) ==
    LET stops == {i \in from..Len(lines) : lines[i] = <<>>}
        to == IF stops = {} THEN Len(lines) ELSE Min(stops) - 1
    IN SelectSeq(SubSeq(lines, from, to), LAMBDA l : ~IsCommentLine(l))

\* the option lines under the header of section name, <<>> when it has no header
SectionBlock(lines, name) ==
    LET hs == {i \in 1..Len(lines) : lines[i] = SectionHeader(name)}
    IN IF hs = {} THEN <<>> ELSE BlockFrom(lines, Min(hs) + 1)

\* the root option lines: those above the first header
RootBlock(lines) ==
    IF lines # <<>> /\ IsSectionHeader(lines[1]) THEN <<>> ELSE BlockFrom(lines, 1)

ItemLineSeq(d) == [i \in 1..Len(d) |-> KeyValueLine(d[i].k, d[i].v)]

\* the keys _update_vale_ini sets in section name (none outside the four sections)
RequiredKeys(name, style_name) ==
    LET req == required_sections(style_name)
    IN IF DictHas(req, name) THEN Range(DictKeys(DictGet(req, name))) ELSE {}

IniBefore == _parse_ini(ini_prev)
L_LegacyName == <<"l","e","g","a","c","y">>
L_AlphaName == <<"a","l","p","h","a">>

-----------------------------------------------------------------------------
(* C1: running _update_vale_ini again with the same packages_url and       *)
(* manifest on the file it has just written leaves the file byte-identical.*)
C1_IniUpdateIdempotent ==
    ini_op = "update" => _update_vale_ini(ini_file, ini_args) = ini_file

\* a second run with the same inputs has happened on a file that holds a
\* section and a root option of the user's, and wrote the same bytes again
C1_Witness ==
    /\ ini_op = "update"
    /\ ini_prev = ini_file
    /\ DictHas(IniBefore.sections, L_LegacyName)
    /\ Len(IniBefore.root_options) > 3

(* C2: every section other than the four mandatory ones, and every root    *)
(* option other than Packages, MinAlertLevel and Vocab, is in the output   *)
(* of _update_vale_ini with exactly its original key/value pairs.          *)
C2_UnknownContentPreserved ==
    ini_op = "update" =>
        /\ \A i \in 1..Len(IniBefore.sections) :
              LET sec == IniBefore.sections[i]
              IN sec.k \notin Range(section_order) =>
                    /\ SectionHeader(sec.k) \in Range(ini_file.lines)
                    /\ Range(SectionBlock(ini_file.lines, sec.k))
                          = Range(ItemLineSeq(sec.v))
        /\ \A i \in 1..Len(IniBefore.root_options) :
              LET opt == IniBefore.root_options[i]
              IN opt.k \notin Range(root_priority) =>
                    KeyValueLine(opt.k, opt.v) \in Range(RootBlock(ini_file.lines))

\* an update of a file that held [legacy] with a key and a root option outside
\* the priority list
C2_Witness ==
    /\ ini_op = "update"
    /\ ini_prev # ini_file
    /\ DictHas(IniBefore.sections, L_LegacyName)
    /\ DictGetOr(IniBefore.sections, L_LegacyName, <<>>) # <<>>
    /\ \E i \in 1..Len(IniBefore.root_options) :
          IniBefore.root_options[i].k \notin Range(root_priority)

(* C3: _merge_and_order_section(existing, required) has exactly the keys   *)
(* of existing and required; a key of required carries required's value,   *)
(* any other key existing's value; the keys of required come first in      *)
(* required's order, then the other keys of existing in their order.       *)
C3_MergeRequiredWinsAndOrder ==
    mg_done =>
        /\ Range(DictKeys(mg_result))
              = Range(DictKeys(mg_existing)) \cup Range(DictKeys(mg_required))
        /\ \A i \in 1..Len(mg_result) :
              mg_result[i].v =
                 IF DictHas(mg_required, mg_result[i].k)
                 THEN DictGet(mg_required, mg_result[i].k)
                 ELSE DictGet(mg_existing, mg_result[i].k)
        /\ DictKeys(mg_result)
              = DictKeys(mg_required)
                \o SelectSeq(DictKeys(mg_existing),
                             LAMBDA k : ~DictHas(mg_required, k))

\* a merge where a key is in both with different values, and existing has
\* another key that comes before it
C3_Witness ==
    /\ mg_done
    /\ Len(mg_existing) >= 2
    /\ ~DictHas(mg_required, mg_existing[1].k)
    /\ DictHas(mg_required, mg_existing[2].k)
    /\ DictGet(mg_required, mg_existing[2].k) # mg_existing[2].v

(* C4: the output of _update_vale_ini lists Packages, MinAlertLevel, Vocab *)
(* first, then the other root options in parsed order, then the four       *)
(* mandatory sections in their fixed order, each with BasedOnStyles = the  *)
(* style name first, then the other sections sorted by name.               *)
C4_IniOutputOrder ==
    ini_op = "update" =>
        LET out == ini_file.lines
            vocab == IF ini_args.vocab_name # <<>> THEN ini_args.vocab_name
                     ELSE ini_args.style_name
            others == SelectSeq(IniBefore.root_options,
                                LAMBDA e : e.k \notin Range(root_priority))
            names == HeaderNames(out)
        IN /\ RootBlock(out)
                = <<KeyValueLine(K_Packages, ini_args.packages_url),
                    KeyValueLine(K_MinAlertLevel, ini_args.min_alert_level),
                    KeyValueLine(K_Vocab, vocab)>> \o ItemLineSeq(others)
           /\ Len(names) >= 4
           /\ SubSeq(names, 1, 4) = section_order
           /\ \A i \in 1..4 :
                 /\ SectionBlock(out, section_order[i]) # <<>>
                 /\ SectionBlock(out, section_order[i])[1]
                       = KeyValueLine(K_BasedOnStyles, ini_args.style_name)
           /\ \A i \in 5..(Len(names) - 1) : StrLess(names[i], names[i + 1])
           /\ {names[i] : i \in 5..Len(names)}
                 = Range(DictKeys(IniBefore.sections)) \ Range(section_order)

\* an update of a file that held a root option outside the priority list and
\* listed [legacy] before [alpha]
C4_Witness ==
    /\ ini_op = "update"
    /\ ini_prev # ini_file
    /\ \E i \in 1..Len(IniBefore.root_options) :
          IniBefore.root_options[i].k \notin Range(root_priority)
    /\ DictKeys(IniBefore.sections) = <<L_LegacyName, L_AlphaName>>

\* non-mandatory keys of the root and of every section keep their input order
IniForeignKeysKeepOrder ==
    LET out == ini_file.lines
    IN /\ SelectSeq(RootBlock(out),
                    LAMBDA l : \A k \in Range(root_priority) :
                                  ~StartsWith(l, k \o <<" ", "=", " ">>))
            = ItemLineSeq(SelectSeq(IniBefore.root_options,
                                    LAMBDA e : e.k \notin Range(root_priority)))
       /\ \A i \in 1..Len(IniBefore.sections) :
             LET sec == IniBefore.sections[i]
                 req == RequiredKeys(sec.k, ini_args.style_name)
             IN SelectSeq(SectionBlock(out, sec.k),
                          LAMBDA l : \A k \in req :
                                        ~StartsWith(l, k \o <<" ", "=", " ">>))
                   = ItemLineSeq(SelectSeq(sec.v, LAMBDA e : e.k \notin req))

\* the headers of the non-mandatory sections of the output, in order
IniForeignHeaders ==
    SelectSeq(HeaderNames(ini_file.lines), LAMBDA n : n \notin Range(section_order))

(* C5 as stated: the non-mandatory sections of the output are in the       *)
(* relative order of the input file, and the non-mandatory keys of the     *)
(* root and of every section keep their relative input order.              *)
C5_Original_NothingReordered ==
    ini_op = "update" =>
        /\ IniForeignHeaders
              = SelectSeq(DictKeys(IniBefore.sections),
                          LAMBDA n : n \notin Range(section_order))
        /\ IniForeignKeysKeepOrder

(* C5 as amended: the non-mandatory keys of the root and of every section  *)
(* keep their relative input order; the non-mandatory sections are all     *)
(* kept but are listed sorted by name, whatever their input order.         *)
C5_KeysKeepOrderSectionsSorted ==
    ini_op = "update" =>
        /\ IniForeignKeysKeepOrder
        /\ Range(IniForeignHeaders)
              = Range(DictKeys(IniBefore.sections)) \ Range(section_order)
        /\ \A i \in 1..(Len(IniForeignHeaders) - 1) :
              StrLess(IniForeignHeaders[i], IniForeignHeaders[i + 1])

\* an update of a file whose [README.md] held two keys of the user's, Vocab
\* before StylesPath
C5_Witness ==
    /\ ini_op = "update"
    /\ ini_prev # ini_file
    /\ DictHas(IniBefore.sections, S_Readme)
    /\ DictKeys(DictGetOr(IniBefore.sections, S_Readme, <<>>))
          = <<K_Vocab, <<"S","t","y","l","e","s","P","a","t","h">> >>

-----------------------------------------------------------------------------
(* Reading the Makefile as text.                                           *)

IsValeHeader(line) == StartsWith(line, T_ValeHeader)
IsTabbed(line) == line # <<>> /\ line[1] = "\t"
IsBlank(line) == \A i \in 1..Len(line) : IsSpace(line[i])
IsPhonyLine(line) == StartsWith(LStrip(line), T_PHONY)

\* word stands in line as a whitespace-delimited token
ListsToken(line, word) ==
    \E a \in 1..Len(line) :
        LET b == a + Len(word) - 1
        IN /\ b <= Len(line)
           /\ SubSeq(line, a, b) = word
           /\ (a = 1 \/ IsSpace(line[a - 1]))
           /\ (b = Len(line) \/ IsSpace(line[b + 1]))

\* the lines the three transforms of the last _update_makefile worked on
MkLinesForPhony == MkAfterVariable(mk_prev)
MkLinesForTarget == MkAfterPhony(mk_prev)

(* C6 as stated: applying _update_makefile to the file it has just written *)
(* gives the same file contents again.                                     *)
C6_MakefileUpdateIdempotent ==
    mk_op = "update" => _update_makefile(mk_file) = mk_file

(* C7 as stated: after _update_makefile exactly one line starts with       *)
(* "vale:", and it is the canonical header followed at once by the two     *)
(* canonical body lines.                                                   *)
C7_ExactlyOneValeBlock ==
    mk_op = "update" =>
        LET out == mk_file.lines
            hs == {i \in 1..Len(out) : IsValeHeader(out[i])}
        IN /\ Cardinality(hs) = 1
           /\ \A i \in hs : i + 2 <= Len(out) /\ SubSeq(out, i, i + 2) = recipe

(* C8: when a line starts with "vale:", _replace_vale_target returns the   *)
(* lines before the first such line, the three recipe lines, and the lines *)
(* after the old block: the header, the longest run of tab-led lines after *)
(* it and the longest run of blank lines after those.                      *)
C8_ReplaceTargetFrame ==
    mk_op = "update" =>
        LET lines == MkLinesForTarget
            hs == {i \in 1..Len(lines) : IsValeHeader(lines[i])}
            s == Min(hs)
        IN hs # {} =>
              \E t \in s..Len(lines), e \in s..Len(lines) :
                  /\ t <= e
                  /\ \A i \in (s + 1)..t : IsTabbed(lines[i])
                  /\ t < Len(lines) => ~IsTabbed(lines[t + 1])
                  /\ \A i \in (t + 1)..e : IsBlank(lines[i])
                  /\ e < Len(lines) => ~IsBlank(lines[e + 1])
                  /\ _replace_vale_target(lines)
                        = SubSeq(lines, 1, s - 1) \o recipe
                          \o SubSeq(lines, e + 1, Len(lines))

\* the target replaced had a tab-led body line, a blank line after it and a
\* further line after the block
C8_Witness ==
    /\ mk_op = "update"
    /\ \E i \in 1..Len(MkLinesForTarget) :
          /\ i + 3 <= Len(MkLinesForTarget)
          /\ MkLinesForTarget[i] = M_ValeOld
          /\ IsTabbed(MkLinesForTarget[i + 1])
          /\ MkLinesForTarget[i + 2] = <<>>
          /\ MkLinesForTarget[i + 3] = M_Lint

(* C9: when the first .PHONY line does not list the target, _ensure_phony  *)
(* appends " vale" to that line, changes no other line and adds no .PHONY  *)
(* line, and applied again changes nothing; when it lists the target, the  *)
(* lines come back unchanged.                                              *)
C9_EnsurePhonyAppendsOnce ==
    mk_op = "update" =>
        LET lines == MkLinesForPhony
            out == _ensure_phony(lines, T_vale)
            ps == {i \in 1..Len(lines) : IsPhonyLine(lines[i])}
            p == Min(ps)
        IN ps # {} =>
              IF ListsToken(lines[p], T_vale)
              THEN out = lines
              ELSE /\ Len(out) = Len(lines)
                   /\ \A i \in 1..Len(lines) : i # p => out[i] = lines[i]
                   /\ out[p] = RStrip(lines[p]) \o <<" ">> \o T_vale
                   /\ {i \in 1..Len(out) : IsPhonyLine(out[i])} = ps
                   /\ _ensure_phony(out, T_vale) = out

\* the Makefile had a .PHONY line without vale, after another line
C9_Witness ==
    /\ mk_op = "update"
    /\ \E i \in 2..Len(MkLinesForPhony) :
          /\ MkLinesForPhony[i] = M_PhonyTest
          /\ \A j \in 1..(i - 1) : ~IsPhonyLine(MkLinesForPhony[j])

-----------------------------------------------------------------------------
(* Reading the last update_tengo_map call.                                 *)

\* the entries of the named block of the script as it was before the call
TgExistingBefore ==
    LET h == _find_map_header(tg_prev.lines, tg_call.map_name)
    IN _collect_entries(tg_prev.lines, h.idx + 1,
                        _find_map_end(tg_prev.lines, h.idx), h.indent).entries

\* every supplied key was in the block with a semantically equal value
TgAllPresentAndEqual ==
    \A i \in 1..Len(tg_call.entries) :
        /\ DictHas(TgExistingBefore, tg_call.entries[i].k)
        /\ _values_equal(DictGet(TgExistingBefore, tg_call.entries[i].k).value,
                         tg_call.entries[i].v)

(* C10: if every supplied key is in the block with a semantically equal   *)
(* value, update_tengo_map returns updated = 0 and wrote_file = false and  *)
(* writes nothing, whatever the source file.                               *)
C10_NoOpNeverWrites ==
    (tg_ret.status = "ok" /\ TgAllPresentAndEqual) =>
        /\ tg_ret.updated = 0
        /\ tg_ret.wrote_file = FALSE
        /\ tg_writes = 0
        /\ tg_file = tg_prev

\* the supplied keys, and the entry each had in the block before the call
TgSupplied == 1..Len(tg_call.entries)
TgKey(i) == tg_call.entries[i].k
TgValue(i) == tg_call.entries[i].v
TgWasInBlock(i) == DictHas(TgExistingBefore, TgKey(i))
TgEntryBefore(i) == DictGet(TgExistingBefore, TgKey(i))

\* the supplied entries without the i-th
TgEntriesWithout(i) ==
    SubSeq(tg_call.entries, 1, i - 1)
    \o SubSeq(tg_call.entries, i + 1, Len(tg_call.entries))

\* the update count the call would have returned without the i-th entry
TgUpdatedWithout(i) ==
    update_tengo_map(tg_prev, tg_call.map_name, TgEntriesWithout(i)).ret.updated

\* an integer or a floating-point value, and what it is worth in tenths
IsIntOrFloat(v) == v.t \in {"int", "float"}
InTenths(v) == IF v.t = "int" THEN 10 * v.n ELSE v.n

\* the line of the i-th supplied key's entry is what it was before the call
TgLineKept(i) ==
    tg_file.lines[TgEntryBefore(i).index + 1] = tg_prev.lines[TgEntryBefore(i).index + 1]

(* C11: when the existing literal of a supplied key parses to an integer   *)
(* or a float and the supplied value is an integer or a float worth the    *)
(* same, update_tengo_map counts no update for that key and leaves the     *)
(* entry's line as it was.                                                 *)
C11_SameNumberIsNoChange ==
    tg_ret.status = "ok" =>
        \A i \in TgSupplied :
            (/\ TgWasInBlock(i)
             /\ IsIntOrFloat(TgEntryBefore(i).value)
             /\ IsIntOrFloat(TgValue(i))
             /\ InTenths(TgEntryBefore(i).value) = InTenths(TgValue(i)))
            => /\ TgLineKept(i)
               /\ tg_ret.updated = TgUpdatedWithout(i)

\* integer 10 was merged over the literal 10.0
C11_Witness ==
    /\ tg_ret.status = "ok"
    /\ \E i \in TgSupplied :
          /\ TgWasInBlock(i)
          /\ TgEntryBefore(i).value = PyFloat(100)
          /\ TgValue(i) = PyInt(10)
          /\ tg_ret.updated = 0

(* C12: a supplied boolean equals an existing value only if that is a      *)
(* boolean with the same truth value, and a supplied number never equals   *)
(* an existing true/false literal: in every other case the merge is a      *)
(* change, the line is rewritten and the update is counted.                *)
C12_BooleanIsNotANumber ==
    tg_ret.status = "ok" =>
        \A i \in TgSupplied :
            (/\ TgWasInBlock(i)
             /\ \/ /\ TgValue(i).t = "bool"
                   /\ ~(TgEntryBefore(i).value.t = "bool"
                        /\ TgEntryBefore(i).value.n = TgValue(i).n)
                \/ /\ IsIntOrFloat(TgValue(i))
                   /\ TgEntryBefore(i).value.t = "bool")
            => /\ tg_file.lines[TgEntryBefore(i).index + 1]
                     = _render_entry(TgKey(i), TgValue(i), TgEntryBefore(i).indent,
                                     TgEntryBefore(i).comment)
               /\ tg_ret.updated = TgUpdatedWithout(i) + 1

\* the header and the closing line of the block before the call, as Python
\* indices, and the supplied entries whose key the block did not have
TgHeaderBefore == _find_map_header(tg_prev.lines, tg_call.map_name).idx
TgClosingBefore == _find_map_end(tg_prev.lines, TgHeaderBefore)
TgNewEntries == SelectSeq(tg_call.entries, LAMBDA e : ~DictHas(TgExistingBefore, e.k))

\* line is an entry line for key: spaces, the quoted key and a colon
IsLineOfKey(line, key) ==
    StartsWith(LStrip(line), <<"\"">> \o key \o <<"\"", ":">>)

\* the key the entry pattern finds on a line, if any
KeyOnLine(line) == [ok |-> ENTRY_PATTERN(line).ok, key |-> ENTRY_PATTERN(line).key]

(* C13: every supplied key the block did not have becomes one new line;    *)
(* the new lines stand together right before the closing line, in the      *)
(* order supplied, and after every line the block had.                     *)
C13_NewEntriesBeforeClosing ==
    tg_ret.status = "ok" =>
        LET old == tg_prev.lines
            new == tg_file.lines
            c == TgClosingBefore
            n == Len(TgNewEntries)
        IN /\ Len(new) = Len(old) + n
           /\ \A j \in 1..n : IsLineOfKey(new[c + j], TgNewEntries[j].k)
           /\ SubSeq(new, c + n + 1, Len(new)) = SubSeq(old, c + 1, Len(old))
           /\ \A i \in 1..c : KeyOnLine(new[i]) = KeyOnLine(old[i])

\* two new keys were inserted into a block that had an entry line
C13_Witness ==
    /\ tg_ret.status = "ok"
    /\ tg_runs = 1
    /\ Len(TgNewEntries) = 2
    /\ TgExistingBefore # <<>>
    /\ Len(tg_file.lines) = Len(tg_prev.lines) + 2

\* the leading whitespace of a line
IndentOf(line) == SubSeq(line, 1, Len(line) - Len(LStrip(line)))

\* the indentation C14 names: that of the first line of the block matching
\* the entry pattern, else the header's plus two spaces
TgExpectedIndent ==
    LET matching == {i \in (TgHeaderBefore + 2)..TgClosingBefore :
                        ENTRY_PATTERN(tg_prev.lines[i]).ok}
    IN IF matching = {}
       THEN IndentOf(tg_prev.lines[TgHeaderBefore + 1]) \o <<" ", " ">>
       ELSE IndentOf(tg_prev.lines[Min(matching)])

(* C14: every new entry line is the indentation of the first line of the   *)
(* block matching the entry pattern (the header's plus two spaces when     *)
(* none matches), then "key": value and a comma, with no comment after.    *)
C14_NewEntryIndentation ==
    tg_ret.status = "ok" =>
        \A j \in 1..Len(TgNewEntries) :
            tg_file.lines[TgClosingBefore + j]
                = TgExpectedIndent \o <<"\"">> \o TgNewEntries[j].k \o <<"\"", ":", " ">>
                  \o _render_value(TgNewEntries[j].v) \o <<",">>

\* a new key was inserted into a block whose first entry line is indented by
\* four spaces and carries a comment
C14_Witness ==
    /\ tg_ret.status = "ok"
    /\ tg_runs = 1
    /\ TgNewEntries # <<>>
    /\ TgExpectedIndent = <<" ", " ", " ", " ">>

\* the trailing inline comment of a line: from the whitespace before the
\* first "//" to the end of the line, empty when the line has no "//"
CommentOf(line) ==
    LET slashes == {i \in 1..(Len(line) - 1) : line[i] = "/" /\ line[i + 1] = "/"}
        from == Min({j \in 1..Min(slashes) :
                        \A k \in j..(Min(slashes) - 1) : IsSpace(line[k])})
    IN IF slashes = {} THEN <<>> ELSE SubSeq(line, from, Len(line))

(* C15: when a supplied key is in the block with a semantically different  *)
(* value, exactly its line is rewritten where it stands, with the line's   *)
(* indentation and its trailing inline comment kept, and one update is     *)
(* counted; when the value is semantically equal the line stays as it was  *)
(* and nothing is counted.                                                 *)
C15_ReplacedInPlace ==
    tg_ret.status = "ok" =>
        \A i \in TgSupplied :
            TgWasInBlock(i) =>
                LET at == TgEntryBefore(i).index + 1
                    was == tg_prev.lines[at]
                IN IF _values_equal(TgEntryBefore(i).value, TgValue(i))
                   THEN /\ tg_file.lines[at] = was
                        /\ tg_ret.updated = TgUpdatedWithout(i)
                   ELSE /\ tg_file.lines[at]
                              = IndentOf(was) \o <<"\"">> \o TgKey(i) \o <<"\"", ":", " ">>
                                \o _render_value(TgValue(i)) \o <<",">> \o CommentOf(was)
                        /\ tg_ret.updated = TgUpdatedWithout(i) + 1

\* no supplied key is the key of the line
IsLineOfNoSuppliedKey(line) == \A i \in TgSupplied : ~IsLineOfKey(line, TgKey(i))

(* C16: update_tengo_map leaves unchanged and in order every line before   *)
(* the header, the header, the closing line, every line after it, and      *)
(* every line of the block whose key is not a supplied key.                *)
C16_UnrelatedLinesStable ==
    tg_ret.status = "ok" =>
        LET old == tg_prev.lines
            new == tg_file.lines
            h == TgHeaderBefore
            c == TgClosingBefore
            n == Len(TgNewEntries)
        IN /\ SubSeq(new, 1, h + 1) = SubSeq(old, 1, h + 1)
           /\ SubSeq(new, c + n + 1, Len(new)) = SubSeq(old, c + 1, Len(old))
           /\ \A i \in (h + 2)..c : IsLineOfNoSuppliedKey(old[i]) => new[i] = old[i]

\* the call changed a script that had a line before the header, a line
\* after the closing line and, in the block, an entry of a key not supplied
C16_Witness ==
    /\ tg_ret.status = "ok"
    /\ tg_ret.updated > 0
    /\ tg_prev.lines[1] = G_Top
    /\ Last(tg_prev.lines) = G_After
    /\ \E i \in (TgHeaderBefore + 2)..TgClosingBefore :
          /\ ENTRY_PATTERN(tg_prev.lines[i]).ok
          /\ IsLineOfNoSuppliedKey(tg_prev.lines[i])

(* C17: after a successful update_tengo_map, a second call with the same   *)
(* map name and entries returns updated = 0 and wrote_file = false and     *)
(* leaves the file as it is, also for keys holding a double quote or a     *)
(* backslash.                                                              *)
C17_TengoUpdateIdempotent ==
    tg_ret.status = "ok" =>
        LET again == update_tengo_map(tg_file, tg_call.map_name, tg_call.entries)
        IN /\ again.ret = [status |-> "ok", updated |-> 0, wrote_file |-> FALSE]
           /\ again.writes = 0
           /\ again.file = tg_file

-----------------------------------------------------------------------------
(* Claims about parse_source_entries and the update-tengo-map command.     *)

\* the lines of the source list that are neither blank nor, after leading
\* whitespace, begin with "#"
SrcCounted ==
    {i \in 1..Len(src_file.lines) :
        /\ Strip(src_file.lines[i]) # <<>>
        /\ LStrip(src_file.lines[i])[1] # "#"}

\* the token of line i of the source list, and what it parses to
SrcTokenText(i) == Strip(StripTrailingComment(src_file.lines[i]))
SrcToken(i) == _parse_token(SrcTokenText(i), src_mode)

\* line i is the last counted line that supplies its key
SrcIsLastOfKey(i) ==
    \A j \in SrcCounted : SrcToken(j).key = SrcToken(i).key => j <= i

\* some key is supplied by two counted lines
SrcKeyRepeated ==
    \E i, j \in SrcCounted : i < j /\ SrcToken(i).key = SrcToken(j).key

(* C18: parse_source_entries returns as count the number of lines that are *)
(* neither blank nor begin, after leading spaces, with "#", and a mapping  *)
(* that holds for each key the value of the last line that supplied it;    *)
(* the count is at least the size of the mapping, and greater exactly when *)
(* some key is repeated.                                                   *)
C18_CountAndLastValue ==
    src_ret.status = "ok" =>
        /\ src_ret.entries_provided = Cardinality(SrcCounted)
        /\ \A i, j \in 1..Len(src_ret.parsed) :
              src_ret.parsed[i].k = src_ret.parsed[j].k => i = j
        /\ {e.k : e \in Range(src_ret.parsed)} = {SrcToken(i).key : i \in SrcCounted}
        /\ \A i \in SrcCounted :
              SrcIsLastOfKey(i)
                  => DictGet(src_ret.parsed, SrcToken(i).key) = SrcToken(i).value
        /\ src_ret.entries_provided >= Len(src_ret.parsed)
        /\ src_ret.entries_provided > Len(src_ret.parsed) <=> SrcKeyRepeated

\* two lines supplied the same key with different values, and the call returned
C18_Witness ==
    /\ src_ret.status = "ok"
    /\ src_ret.entries_provided = 2
    /\ Len(src_ret.parsed) = 1
    /\ SrcKeyRepeated
    /\ SrcToken(1).value # SrcToken(2).value
    /\ src_ret.parsed[1].v = SrcToken(2).value

\* the part of the token of line i after its first "="
SrcRawValue(i) ==
    Strip(SubSeq(SrcTokenText(i), Find(SrcTokenText(i), "=") + 1, Len(SrcTokenText(i))))

\* line i of the source list fails coercion: in a typed mode its token has no
\* "=", or is not a number in numeric mode, or not true/false in boolean mode
SrcFailsCoercion(i) ==
    /\ i \in SrcCounted
    /\ src_mode # "true"
    /\ \/ Find(SrcTokenText(i), "=") = 0
       \/ /\ src_mode = "=n"
          /\ ~IsIntLiteral(SrcRawValue(i))
          /\ ~IsFloatLiteral(SrcRawValue(i))
       \/ /\ src_mode = "=b"
          /\ Lower(SrcRawValue(i)) \notin {W_true, W_false}

(* C19: when any line of the source list fails coercion, at whatever       *)
(* position, the update-tengo-map command fails and the destination file   *)
(* is not written, even when earlier lines were valid.                     *)
C19_MalformedSourceNeverWrites ==
    (cmd_ret.status # "none" /\ \E i \in 1..Len(src_file.lines) : SrcFailsCoercion(i)) =>
        /\ cmd_ret.status = "SystemExit"
        /\ tg_writes = 0
        /\ tg_file = tg_prev
        /\ tg_ret = NoReturn

\* the command ran on a script with the map and a source list whose first
\* line is a valid entry not yet in the map and whose second fails coercion
C19_Witness ==
    /\ cmd_ret.status = "SystemExit"
    /\ tg_prev = Text(<<G_Header, G_Close>>)
    /\ Len(src_file.lines) = 2
    /\ 1 \in SrcCounted /\ SrcToken(1).ok /\ ~SrcFailsCoercion(1)
    /\ SrcFailsCoercion(2)

\* the first line of the script that is a header of the map the call names,
\* 0 when there is none
TgFirstHeader ==
    IF \E i \in 1..Len(tg_prev.lines) : HeaderMatch(tg_prev.lines[i], tg_call.map_name)
    THEN Min({i \in 1..Len(tg_prev.lines) : HeaderMatch(tg_prev.lines[i], tg_call.map_name)})
    ELSE 0

\* opening minus closing braces on the lines from..to of the script
RECURSIVE TgBraces(_, _)
TgBraces(from, to) ==
    IF from > to THEN 0
    ELSE Count(tg_prev.lines[to], "{") - Count(tg_prev.lines[to], "}")
         + TgBraces(from, to - 1)

\* the brace depth, 1 after the header, is 0 after no later line
TgNeverClosed ==
    \A j \in (TgFirstHeader + 1)..Len(tg_prev.lines) :
        1 + TgBraces(TgFirstHeader + 1, j) # 0

\* one of the error conditions of update_tengo_map held when it was called
TgErrorCondition ==
    \/ ~tg_prev.exists
    \/ tg_call.map_name = <<>>
    \/ TgFirstHeader = 0
    \/ TgNeverClosed

(* C20: update_tengo_map raises, returns no result and leaves the file     *)
(* unwritten when the file is missing, the map name is empty, no header    *)
(* line of the map exists, or the brace depth never returns to 0 before    *)
(* the end of the file; a missing file is reported before an empty name.   *)
C20_ErrorConditions ==
    (tg_runs > 0 /\ TgErrorCondition) =>
        /\ tg_ret.status = IF tg_prev.exists THEN "TengoMapError" ELSE "FileNotFoundError"
        /\ tg_ret.updated = 0 /\ ~tg_ret.wrote_file
        /\ tg_writes = 0
        /\ tg_file = tg_prev

\* the call named no map on a path that does not exist
C20_Witness ==
    /\ tg_runs > 0
    /\ ~tg_prev.exists
    /\ tg_call.map_name = <<>>
    /\ tg_ret.status = "FileNotFoundError"

-----------------------------------------------------------------------------
(* Claims about _parse_repo_reference.                                     *)

\* the positions of "/" in the reference, and its two segments when there
\* is exactly one
RefSlashes == {i \in 1..Len(ref_repo) : ref_repo[i] = "/"}
RefFirst == SubSeq(ref_repo, 1, Min(RefSlashes) - 1)
RefSecond == SubSeq(ref_repo, Min(RefSlashes) + 1, Len(ref_repo))

\* the reference splits on "/" into exactly two segments, non-empty once trimmed
RefWellFormed ==
    /\ Cardinality(RefSlashes) = 1
    /\ Strip(RefFirst) # <<>>
    /\ Strip(RefSecond) # <<>>

\* the repo name with the suffix "-vale" taken off
RefSuffixOff == SubSeq(Strip(RefSecond), 1, Len(Strip(RefSecond)) - Len(T_ValeSuffix))

(* C21 as stated: _parse_repo_reference raises for every reference that    *)
(* does not split on "/" into exactly two segments non-empty after         *)
(* trimming, and for every other returns the trimmed owner and repo name   *)
(* and the style name: the repo name with the suffix "-vale" stripped, or  *)
(* the repo name itself when it has no such suffix.                        *)
C21_Original_SuffixAlwaysStripped ==
    ref_ret.status # "none" =>
        IF RefWellFormed
        THEN /\ ref_ret.status = "ok"
             /\ ref_ret.owner = Strip(RefFirst)
             /\ ref_ret.repo_name = Strip(RefSecond)
             /\ ref_ret.style_name = IF EndsWith(Strip(RefSecond), T_ValeSuffix)
                                     THEN RefSuffixOff ELSE Strip(RefSecond)
        ELSE ref_ret.status = "ValueError"

(* C21 amended: as stated, except that the suffix "-vale" is stripped only *)
(* from a repo name that is longer than the suffix; the repo name "-vale"  *)
(* is its own style name.                                                  *)
C21_SuffixStrippedUnlessWhole ==
    ref_ret.status # "none" =>
        IF RefWellFormed
        THEN /\ ref_ret.status = "ok"
             /\ ref_ret.owner = Strip(RefFirst)
             /\ ref_ret.repo_name = Strip(RefSecond)
             /\ ref_ret.style_name
                   = IF /\ EndsWith(Strip(RefSecond), T_ValeSuffix)
                        /\ Len(Strip(RefSecond)) > Len(T_ValeSuffix)
                     THEN RefSuffixOff ELSE Strip(RefSecond)
        ELSE ref_ret.status = "ValueError"

\* a reference whose repo name is the suffix alone, padded with spaces, was
\* accepted
C21_Witness ==
    /\ ref_ret.status = "ok"
    /\ ref_ret.repo_name = T_ValeSuffix
    /\ ref_ret.style_name = T_ValeSuffix
    /\ ref_ret.owner # RefFirst

-----------------------------------------------------------------------------
(* Claims about _replace_vale_target and _find_map_end taken alone.        *)

\* the last line of rt_lines that is not blank, 0 when there is none
RtLastNonBlank ==
    IF \A i \in 1..Len(rt_lines) : IsBlank(rt_lines[i]) THEN 0
    ELSE Max({i \in 1..Len(rt_lines) : ~IsBlank(rt_lines[i])})

(* C25 as stated: when no line starts with "vale:", _replace_vale_target   *)
(* keeps the existing lines unchanged and in order and appends the recipe  *)
(* after them, with exactly one blank line between the last non-blank      *)
(* existing line and the recipe header when there were lines, and with no  *)
(* separator when there were none.                                         *)
C25_AppendedAfterOneBlank ==
    (rt_ret.done /\ \A i \in 1..Len(rt_lines) : ~IsValeHeader(rt_lines[i])) =>
        LET out == rt_ret.lines
            header == Len(out) - 2
        IN /\ Len(out) >= Len(rt_lines) + 3
           /\ SubSeq(out, 1, Len(rt_lines)) = rt_lines
           /\ SubSeq(out, header, Len(out)) = recipe
           /\ rt_lines = <<>> => out = recipe
           /\ rt_lines # <<>> =>
                 /\ header - RtLastNonBlank - 1 = 1
                 /\ IsBlank(out[header - 1])

\* the running depth of _find_map_end after the line of index j: 1 after the
\* header, plus the opening braces and minus the closing ones of the lines
\* after the header up to j
RECURSIVE MeDepth(_)
MeDepth(j) ==
    IF j <= me_start THEN 1
    ELSE MeDepth(j - 1) + Count(me_lines[j + 1], "{") - Count(me_lines[j + 1], "}")

\* the indices after the header where the running depth is 0
MeZeros == {j \in (me_start + 1)..(Len(me_lines) - 1) : MeDepth(j) = 0}

(* C26: _find_map_end returns the smallest line index after the header at  *)
(* which the running depth, 1 after the header plus the "{" and minus the  *)
(* "}" of each line, is 0, the depth being non-zero at every earlier line, *)
(* and raises when the depth is 0 at no line up to the end of the file.    *)
C26_FirstDepthZero ==
    me_ret.status # "none" =>
        IF MeZeros = {} THEN me_ret.status = "TengoMapError"
        ELSE /\ me_ret.status = "ok"
             /\ me_ret.idx = Min(MeZeros)
             /\ \A j \in (me_start + 1)..(me_ret.idx - 1) : MeDepth(j) # 0

\* the end was found after a nested block, below a line where the depth was
\* negative, and with a later line where the depth is 0 again
C26_Witness ==
    /\ me_ret.status = "ok"
    /\ \E j \in (me_start + 1)..(me_ret.idx - 1) : MeDepth(j) < 0
    /\ \E j \in MeZeros : j > me_ret.idx

-----------------------------------------------------------------------------
(* Claims about the result of update_tengo_map.                            *)

\* the entries of the named block of the script as it is after the call
TgExistingAfter ==
    LET h == _find_map_header(tg_file.lines, tg_call.map_name)
    IN _collect_entries(tg_file.lines, h.idx + 1,
                        _find_map_end(tg_file.lines, h.idx), h.indent).entries

\* semantic equality of two values: integers and floats by what they are
\* worth (a NaN taken to match a NaN), booleans and strings by type and value
SemanticallyEqual(a, b) ==
    IF a.t \in {"int", "float", "nan"} /\ b.t \in {"int", "float", "nan"}
    THEN \/ a.t = "nan" /\ b.t = "nan"
         \/ a.t # "nan" /\ b.t # "nan" /\ InTenths(a) = InTenths(b)
    ELSE a = b

(* C27 as stated: after update_tengo_map has returned, re-collecting the   *)
(* entries of the named block gives, for every supplied key, an entry      *)
(* whose value parsed back from the file is semantically equal to the      *)
(* supplied value.                                                         *)
C27_SuppliedEntriesInBlock ==
    tg_ret.status = "ok" =>
        \A i \in TgSupplied :
            /\ DictHas(TgExistingAfter, TgKey(i))
            /\ SemanticallyEqual(DictGet(TgExistingAfter, TgKey(i)).value, TgValue(i))

\* the supplied keys the call replaced or inserted: those the block did not
\* have and those it had with a value _values_equal takes for different
TgCounted ==
    {i \in TgSupplied :
        \/ ~TgWasInBlock(i)
        \/ ~_values_equal(TgEntryBefore(i).value, TgValue(i))}

(* C28 as stated: in every successful update_tengo_map call, updated is    *)
(* the number of supplied keys replaced or inserted, between 0 and the     *)
(* number of supplied keys; updated > 0 implies wrote_file, and wrote_file *)
(* false implies the file is unchanged.                                    *)
C28_CountAndWriteFlagAgree ==
    tg_ret.status = "ok" =>
        /\ tg_ret.updated = Cardinality(TgCounted)
        /\ 0 <= tg_ret.updated /\ tg_ret.updated <= Len(tg_call.entries)
        /\ tg_ret.updated > 0 => tg_ret.wrote_file
        /\ ~tg_ret.wrote_file => tg_file = tg_prev

\* the state of the loop of _apply_entries after the first j supplied entries,
\* given what _collect_entries returned and the index of the closing line
TgApplied(collected, closing, j) ==
    _apply_entries(tg_prev.lines, collected.entries, collected.entry_indent,
                   SubSeq(tg_call.entries, 1, j), closing)

\* the supplied entries among the first j whose key the block did not have
TgNewAmong(existing, j) ==
    SelectSeq(SubSeq(tg_call.entries, 1, j), LAMBDA e : ~DictHas(existing, e.k))

\* st is a state of the loop in which the closing line is at the old index plus
\* the insertions made, above every collected entry, each collected index still
\* points at a line of its key, and the last inserted line is right before the
\* closing line
TgLoopStateValid(st, existing, closing, new) ==
    /\ \A e \in 1..Len(existing) :
          /\ existing[e].v.index < st.closing - Len(new)
          /\ KeyOnLine(st.lines[existing[e].v.index + 1])
                = [ok |-> TRUE, key |-> existing[e].k]
    /\ st.closing = closing + Len(new)
    /\ st.lines[st.closing + 1] = tg_prev.lines[closing + 1]
    /\ new # <<>> => IsLineOfKey(st.lines[st.closing], Last(new).k)

\* what _collect_entries returned in the call
TgCollectedBefore ==
    _collect_entries(tg_prev.lines, TgHeaderBefore + 1, TgClosingBefore,
                     _find_map_header(tg_prev.lines, tg_call.map_name).indent)

(* C30: all through the loop of _apply_entries, whatever the order of new  *)
(* and existing keys, every insertion is made at an index greater than the *)
(* index of every entry the block had, the recorded index of each such     *)
(* entry still points at a line of its key, and the closing line directly  *)
(* follows the last inserted line.                                         *)
C30_EntryIndicesStayValid ==
    tg_ret.status = "ok" =>
        \E collected \in {TgCollectedBefore}, closing \in {TgClosingBefore} :
            \A j \in 0..Len(tg_call.entries) :
                \E st \in {TgApplied(collected, closing, j)},
                   new \in {TgNewAmong(collected.entries, j)} :
                    TgLoopStateValid(st, collected.entries, closing, new)

\* the call inserted a new key, then replaced an entry the block had, then
\* inserted another new key
C30_Witness ==
    /\ tg_ret.status = "ok"
    /\ \E i, j, k \in TgSupplied :
          /\ i < j /\ j < k
          /\ ~TgWasInBlock(i) /\ ~TgWasInBlock(k)
          /\ TgWasInBlock(j)
          /\ ~TgLineKept(j)

-----------------------------------------------------------------------------
(* package_styles and an archive that is already there.                    *)

\* the archive the last call was about was in the output directory before it
PkgTargetExisted == pkg_ret.name # <<>> /\ pkg_ret.name \in DOMAIN pkg_prev

(* C24: when the target archive exists already and force is false,         *)
(* package_styles fails with an error and leaves the archive, and the rest *)
(* of the output directory, as they were; it writes the archive only when  *)
(* the archive did not exist or force is true, and changes no other file.  *)
C24_NoClobberWithoutForce ==
    pkg_ret.status # "none" =>
        /\ (PkgTargetExisted /\ ~pkg_call.force) =>
              /\ pkg_ret.status = "FileExistsError"
              /\ ~pkg_ret.wrote
              /\ pkg_out = pkg_prev
        /\ pkg_ret.wrote => (~PkgTargetExisted \/ pkg_call.force)
        /\ pkg_out # pkg_prev => pkg_ret.wrote
        /\ \A n \in DOMAIN pkg_prev :
              (n # pkg_ret.name \/ ~pkg_ret.wrote) =>
                  (n \in DOMAIN pkg_out /\ pkg_out[n] = pkg_prev[n])

\* a call without force found its archive there and refused
C24_Witness ==
    /\ pkg_ret.status = "FileExistsError"
    /\ PkgTargetExisted
    /\ ~pkg_call.force
    /\ pkg_prev[pkg_ret.name].dirs # <<>>

-----------------------------------------------------------------------------
(* _perform_install: failures of its steps.                                *)

InstOrder == <<"resolve", "load", "ini", "makefile">>

\* a value that is not a str or is blank once trimmed; absent is PyNone
InstUnusable(v) == v.t # "str" \/ Strip(v.s) = <<>>

\* the release lookup was made and failed: a network error, or a payload
\* whose tag_name is missing or blank
InstLookupFailed ==
    \/ inst_lookup.kind = "RuntimeError"
    \/ /\ inst_lookup.kind = "payload"
       /\ inst_lookup.payload.tag_name.t \in {"none", "str"}
       /\ InstUnusable(inst_lookup.payload.tag_name)

(* C22: when the release lookup fails, _perform_install raises the error   *)
(* right after the resolution step and neither .vale.ini nor the Makefile  *)
(* is written.                                                             *)
C22_LookupFailureWritesNothing ==
    InstLookupFailed =>
        /\ inst_pc = "failed"
        /\ inst_ret.status = "RuntimeError"
        /\ inst_log = <<"resolve">>
        /\ ini_file = inst_start.ini /\ ini_op = "init"
        /\ mk_file = inst_start.mk /\ mk_op = "init"

\* the lookup returned a payload with a blank tag_name while both files exist
C22_Witness ==
    /\ inst_lookup.kind = "payload"
    /\ inst_lookup.payload.tag_name = PyStr(<<" ">>)
    /\ inst_start.ini.exists /\ inst_start.mk.exists
    /\ inst_pc = "failed"

\* the manifest fields as the package gave them, PyNone for what it did not
InstGiven ==
    IF inst_archive.kind = "parsed" /\ inst_archive.raw.install_kind = "dict"
    THEN inst_archive.raw.install ELSE NoInstallSection

(* C23: manifest loading never fails the install: however the download,    *)
(* the extraction or the parse ends, the next step is the .vale.ini update *)
(* and nothing is raised; on a failure the manifest is the defaults (the   *)
(* derived style name, that name as vocabulary, warning); a field that is  *)
(* absent, not a str, or blank falls back to its default, which for the    *)
(* vocabulary is the style name the manifest ends with.                    *)
C23_ManifestFailureFallsBack ==
    Len(inst_log) >= 2 =>
        /\ Len(inst_log) = 2 => (inst_pc = "ini" /\ inst_ret.status = "none")
        /\ inst_archive.kind # "parsed" =>
              inst_manifest = [style_name |-> inst_config.style_name,
                               vocab_name |-> inst_config.style_name,
                               min_alert_level |-> T_warning]
        /\ InstUnusable(InstGiven.style_name) =>
              inst_manifest.style_name = inst_config.style_name
        /\ InstUnusable(InstGiven.vocab) =>
              inst_manifest.vocab_name = inst_manifest.style_name
        /\ InstUnusable(InstGiven.min_alert_level) =>
              inst_manifest.min_alert_level = T_warning

\* the download was not a zip archive and the install went through
C23_Witness ==
    /\ inst_archive.kind = "BadZipFile"
    /\ inst_pc = "done"
    /\ inst_ret.status = "ok"
    /\ ini_file # inst_start.ini

\* one step of _perform_install
InstStepInOrder ==
    /\ inst_ret.status = "none"
    /\ inst_pc \in Range(InstOrder)
    /\ inst_log' = Append(inst_log, inst_pc)
    /\ inst_log' = SubSeq(InstOrder, 1, Len(inst_log'))
    /\ ini_file' # ini_file => inst_pc = "ini"
    /\ mk_file' # mk_file => inst_pc = "makefile"
    /\ inst_pc = "makefile" =>
          /\ ini_file = _update_vale_ini(inst_start.ini,
                                         InstallOverlay(inst_release, inst_manifest))
          /\ ini_file' = ini_file

(* C29: every step of _perform_install is taken while nothing has been     *)
(* returned or raised, the steps taken are a prefix of release resolution, *)
(* manifest loading, .vale.ini update, Makefile update, each file changes  *)
(* in its own step only, and the Makefile step, failing or not, leaves the *)
(* .vale.ini as the update wrote it.                                       *)
C29_StepsInOrder == [][InstStepInOrder]_vars

\* the Makefile update failed after .vale.ini was rewritten
C29_Witness ==
    /\ inst_pc = "failed"
    /\ inst_log = InstOrder
    /\ ini_file # inst_start.ini
    /\ mk_file = inst_start.mk

====
